---------------------------- MODULE Spec2Model ----------------------------
(***************************************************************************)
(* A model of the music-contest bot (ArualKM/NeonContests): the submission *)
(* admission pipeline of main.py, running as tasks of one asyncio event    *)
(* loop over one SQLite store (database.py), the in-memory rate limiter    *)
(* and the validators of utils.py and the provider registry of             *)
(* platforms.py.                                                           *)
(*                                                                         *)
(* Text is modelled as a sequence of one-character strings, so that        *)
(* validation, URL parsing, handler matching and canonicalisation are      *)
(* computed the way the code computes them.                                *)
(***************************************************************************)
EXTENDS Integers, Sequences, FiniteSets, TLC

(***************************************************************************)
(* Bounds of the model                                                     *)
(***************************************************************************)
\* Concurrent command invocations (tasks of the event loop).
NumTasks == 2
\* Chat users issuing commands.
NumUsers == 2
\* Commands invoked in one run.
MaxRequests == 2
\* Times the wall clock advances in one run.
MaxTicks == 1
\* Calls of the rate limiter, and advances of the clock, in one run of the
\* limiter alone.
MaxLimiterCalls == 7
MaxLimiterTicks == 2

Tasks == 1..NumTasks
Users == 1..NumUsers

(***************************************************************************)
(* Program constants                                                       *)
(***************************************************************************)
MIN_CONTEST_ID_LENGTH == 3
MAX_CONTEST_ID_LENGTH == 30
MAX_SONG_NAME_LENGTH == 100
MAX_URL_LENGTH == 2048
SubmitMaxCalls == 5
SubmitTimeWindow == 60
DeleteMaxCalls == 10
DeleteTimeWindow == 60
\* submission_limit: Option(int, min_value=1, max_value=10)
MinSubmissionLimit == 1
MaxSubmissionLimit == 10
\* The 11 characters of a YouTube video id.
YouTubeIdLen == 11

(***************************************************************************)
(* Text                                                                    *)
(***************************************************************************)
LowerLetters ==
    {"a","b","c","d","e","f","g","h","i","j","k","l","m",
     "n","o","p","q","r","s","t","u","v","w","x","y","z"}
UpperLetters ==
    {"A","B","C","D","E","F","G","H","I","J","K","L","M",
     "N","O","P","Q","R","S","T","U","V","W","X","Y","Z"}
Digits == {"0","1","2","3","4","5","6","7","8","9"}
\* [a-zA-Z0-9]
Alnum == LowerLetters \cup UpperLetters \cup Digits
\* Characters str.strip() removes, and the control characters [\x00-\x1F\x7F]
\* among the characters the model writes.
Whitespace == {" ", "\t", "\n", "\r", "\f"}
ControlChars == {"\t", "\n", "\r", "\f"}

\* s[i..] and the concatenation of a sequence of texts.
Drop(s, n) == SubSeq(s, n + 1, Len(s))
Take(s, n) == SubSeq(s, 1, n)

\* p occurs in s at index i.
OccursAt(s, p, i) ==
    /\ i >= 1
    /\ i + Len(p) - 1 <= Len(s)
    /\ SubSeq(s, i, i + Len(p) - 1) = p

\* Python's `p in s`.
Contains(s, p) == \E i \in 1..(Len(s) + 1) : OccursAt(s, p, i)

\* Least element of a non-empty set of integers.
Min(S) == CHOOSE x \in S : \A y \in S : x <= y
Max(S) == CHOOSE x \in S : \A y \in S : x >= y

\* str.lower() on the letters of the model's alphabet.
UpperSeq ==
    <<"A","B","C","D","E","F","G","H","I","J","K","L","M",
      "N","O","P","Q","R","S","T","U","V","W","X","Y","Z">>
LowerSeq ==
    <<"a","b","c","d","e","f","g","h","i","j","k","l","m",
      "n","o","p","q","r","s","t","u","v","w","x","y","z">>
LowerChar(c) ==
    IF c \in UpperLetters
    THEN LowerSeq[CHOOSE i \in 1..Len(UpperSeq) : UpperSeq[i] = c]
    ELSE c
Lower(s) == [i \in 1..Len(s) |-> LowerChar(s[i])]

\* str.replace(c, '') for a single character c.
RECURSIVE RemoveChar(_, _)
RemoveChar(s, c) ==
    IF s = <<>> THEN <<>>
    ELSE IF Head(s) = c THEN RemoveChar(Tail(s), c)
    ELSE <<Head(s)>> \o RemoveChar(Tail(s), c)

\* str.strip(): leading and trailing whitespace removed.
RECURSIVE LStrip(_)
LStrip(s) ==
    IF s # <<>> /\ Head(s) \in Whitespace THEN LStrip(Tail(s)) ELSE s
RECURSIVE RStrip(_)
RStrip(s) ==
    IF s # <<>> /\ s[Len(s)] \in Whitespace THEN RStrip(Take(s, Len(s) - 1)) ELSE s
Strip(s) == RStrip(LStrip(s))

\* The longest prefix of s whose characters are all in class.
RECURSIVE TakeWhile(_, _)
TakeWhile(s, class) ==
    IF s # <<>> /\ Head(s) \in class
    THEN <<Head(s)>> \o TakeWhile(Tail(s), class)
    ELSE <<>>

\* The longest prefix of s holding none of the characters of stops.
RECURSIVE TakeUntil(_, _)
TakeUntil(s, stops) ==
    IF s # <<>> /\ Head(s) \notin stops
    THEN <<Head(s)>> \o TakeUntil(Tail(s), stops)
    ELSE <<>>

(***************************************************************************)
(* utils.py: validators                                                    *)
(***************************************************************************)
\* re.match(r'^[a-zA-Z0-9][a-zA-Z0-9-]*[a-zA-Z0-9]$', contest_id): without
\* re.MULTILINE, '$' matches at the end of the string and also just before a
\* newline that ends the string.
ContestIdFormat(s) ==
    LET matched == IF s # <<>> /\ s[Len(s)] = "\n" THEN Take(s, Len(s) - 1) ELSE s
    IN /\ Len(matched) >= 2
       /\ matched[1] \in Alnum
       /\ matched[Len(matched)] \in Alnum
       /\ \A i \in 1..Len(matched) : matched[i] \in Alnum \cup {"-"}

validate_contest_id(contest_id) ==
    IF contest_id = <<>> THEN FALSE
    ELSE IF Len(contest_id) < MIN_CONTEST_ID_LENGTH
            \/ Len(contest_id) > MAX_CONTEST_ID_LENGTH THEN FALSE
    ELSE IF ~ContestIdFormat(contest_id)
         THEN (Len(contest_id) = 1 /\ contest_id[1] \in Alnum)
    ELSE IF Contains(contest_id, <<"-", "-">>) THEN FALSE
    ELSE TRUE

validate_song_name(song_name) ==
    IF song_name = <<>> THEN FALSE
    ELSE LET trimmed == Strip(song_name) IN
         IF trimmed = <<>> \/ Len(trimmed) > MAX_SONG_NAME_LENGTH THEN FALSE
         ELSE IF \E i \in 1..Len(trimmed) : trimmed[i] \in ControlChars THEN FALSE
         ELSE TRUE

\* urllib.parse.urlparse(url).scheme: the text before the first ':' when it
\* starts with a letter and holds only scheme characters, lower-cased.
SchemeChars == Alnum \cup {"+", "-", "."}
ColonAt(url) ==
    IF \E i \in 1..Len(url) : url[i] = ":"
    THEN Min({i \in 1..Len(url) : url[i] = ":"})
    ELSE 0
HasScheme(url) ==
    /\ ColonAt(url) > 1
    /\ url[1] \in LowerLetters \cup UpperLetters
    /\ \A i \in 1..(ColonAt(url) - 1) : url[i] \in SchemeChars
UrlScheme(url) ==
    IF HasScheme(url) THEN Lower(Take(url, ColonAt(url) - 1)) ELSE <<>>
AfterScheme(url) ==
    IF HasScheme(url) THEN Drop(url, ColonAt(url)) ELSE url

\* urllib.parse.urlparse(url).netloc: after '//', up to the first of '/', '?', '#'.
UrlNetloc(url) ==
    LET rest == AfterScheme(url) IN
    IF Len(rest) >= 2 /\ Take(rest, 2) = <<"/", "/">>
    THEN TakeUntil(Drop(rest, 2), {"/", "?", "#"})
    ELSE <<>>

\* The substrings validate_url refuses anywhere in the lower-cased URL.
suspicious_patterns ==
    { <<"j","a","v","a","s","c","r","i","p","t",":">>,
      <<"d","a","t","a",":">>,
      <<"f","i","l","e",":">>,
      <<"f","t","p",":">>,
      <<"\\","\\","x">>,
      <<"%","0","0">>,
      <<"<","s","c","r","i","p","t">>,
      <<"o","n","c","l","i","c","k","=">>,
      <<"o","n","e","r","r","o","r","=">> }

HttpSchemes == { <<"h","t","t","p">>, <<"h","t","t","p","s">> }

validate_url(url) ==
    IF url = <<>> \/ Len(url) > MAX_URL_LENGTH THEN FALSE
    ELSE IF UrlScheme(url) \notin HttpSchemes THEN FALSE
    ELSE IF UrlNetloc(url) = <<>> THEN FALSE
    ELSE LET host == RemoveChar(UrlNetloc(url), ":") IN
         IF host = <<>> \/ \E i \in 1..Len(host) : host[i] \notin Alnum \cup {".", "-"}
         THEN FALSE
         ELSE IF \E p \in suspicious_patterns : Contains(Lower(url), p) THEN FALSE
         ELSE TRUE

(***************************************************************************)
(* platforms.py: the provider handlers and their registry                  *)
(***************************************************************************)
\* Domain names, written out as text.
D_suno_com == <<"s","u","n","o",".","c","o","m">>
D_suno_ai == <<"s","u","n","o",".","a","i">>
D_udio_com == <<"u","d","i","o",".","c","o","m">>
D_riffusion_com == <<"r","i","f","f","u","s","i","o","n",".","c","o","m">>
D_youtube_com == <<"y","o","u","t","u","b","e",".","c","o","m">>
D_youtu_be == <<"y","o","u","t","u",".","b","e">>
D_soundcloud_com == <<"s","o","u","n","d","c","l","o","u","d",".","c","o","m">>
D_spotify_com == <<"s","p","o","t","i","f","y",".","c","o","m">>
W_www == <<"w","w","w",".">>
W_https == <<"h","t","t","p","s",":","/","/">>

\* PlatformManager.handlers: the handlers in construction order, each with its
\* name and its domains.
N_Suno == <<"S","u","n","o">>
N_Udio == <<"U","d","i","o">>
N_Riffusion == <<"R","i","f","f","u","s","i","o","n">>
N_YouTube == <<"Y","o","u","T","u","b","e">>
N_SoundCloud == <<"S","o","u","n","d","C","l","o","u","d">>
N_Spotify == <<"S","p","o","t","i","f","y">>
handlers ==
    << [name |-> N_Suno, domains |-> {D_suno_com, D_suno_ai}],
       [name |-> N_Udio, domains |-> {D_udio_com}],
       [name |-> N_Riffusion, domains |-> {D_riffusion_com, W_www \o D_riffusion_com}],
       [name |-> N_YouTube,
        domains |-> {D_youtube_com, D_youtu_be, <<"m", ".">> \o D_youtube_com,
                     W_www \o D_youtube_com}],
       [name |-> N_SoundCloud, domains |-> {D_soundcloud_com, W_www \o D_soundcloud_com}],
       [name |-> N_Spotify,
        domains |-> {<<"o","p","e","n",".">> \o D_spotify_com, D_spotify_com}] >>

\* The absence of a value (Python's None), comparable with any text.
None == <<"None">>

\* AsyncPlatformHandler.matches: some domain of the handler occurs in the
\* URL's netloc.
matches(h, url) == \E d \in handlers[h].domains : Contains(UrlNetloc(url), d)

\* PlatformManager.get_platform_handler: the first handler that matches (the
\* cache returns the handler this search found for the same URL earlier).
get_platform_handler(url) ==
    IF \E h \in 1..Len(handlers) : matches(h, url)
    THEN handlers[Min({h \in 1..Len(handlers) : matches(h, url)})].name
    ELSE None

\* [h.name.lower() for h in platform_manager.handlers]
valid_platforms == {Lower(handlers[h].name) : h \in 1..Len(handlers)}

\* re.search(prefix + '([class]{n})', s).group(1) for the alternatives
\* `prefixes` of one pattern: the match that starts leftmost; None without one.
SearchFixed(s, prefixes, class, n) ==
    LET hits == {<<i, p>> \in (1..Len(s)) \X prefixes :
                    /\ OccursAt(s, p, i)
                    /\ i + Len(p) + n - 1 <= Len(s)
                    /\ \A k \in 0..(n - 1) : s[i + Len(p) + k] \in class}
    IN IF hits = {} THEN None
       ELSE LET i0 == Min({h[1] : h \in hits})
                h0 == CHOOSE h \in hits : h[1] = i0
            IN SubSeq(s, i0 + Len(h0[2]), i0 + Len(h0[2]) + n - 1)

\* re.search(prefix + '([class]+)', s).group(1): the leftmost match, its
\* group as long as the class allows; None without one.
SearchRun(s, prefixes, class) ==
    LET hits == {<<i, p>> \in (1..Len(s)) \X prefixes :
                    /\ OccursAt(s, p, i)
                    /\ i + Len(p) <= Len(s)
                    /\ s[i + Len(p)] \in class}
    IN IF hits = {} THEN None
       ELSE LET i0 == Min({h[1] : h \in hits})
                h0 == CHOOSE h \in hits : h[1] = i0
            IN TakeWhile(Drop(s, i0 + Len(h0[2]) - 1), class)

IdChars == Alnum \cup {"_", "-"}
P_watch == <<"/","w","a","t","c","h","?","v","=">>
P_song == <<"/","s","o","n","g","/">>
P_track == <<"t","r","a","c","k","/">>

\* YouTubeHandler._extract_video_id: the four patterns in turn.
_extract_video_id(url) ==
    LET p1 == SearchFixed(url, {D_youtube_com \o P_watch, D_youtu_be \o <<"/">>},
                          IdChars, YouTubeIdLen)
        p2 == SearchFixed(url, {D_youtube_com \o <<"/","e","m","b","e","d","/">>},
                          IdChars, YouTubeIdLen)
        p3 == SearchFixed(url, {D_youtube_com \o <<"/","v","/">>}, IdChars, YouTubeIdLen)
        p4 == SearchFixed(url, {D_youtube_com \o <<"/","s","h","o","r","t","s","/">>},
                          IdChars, YouTubeIdLen)
    IN IF p1 # None THEN p1
       ELSE IF p2 # None THEN p2
       ELSE IF p3 # None THEN p3
       ELSE p4

\* The second pattern of SunoHandler._resolve_song_id,
\* 'suno.(com|ai)/.*[?&]id=<id>': from the leftmost 'suno.com/' the greedy
\* '.*' reaches the last '?id=' or '&id=' that an id character follows.
SunoQueryId(s) ==
    LET starts == {i \in 1..Len(s) : OccursAt(s, D_suno_com \o <<"/">>, i)
                                      \/ OccursAt(s, D_suno_ai \o <<"/">>, i)}
        from(i) == IF OccursAt(s, D_suno_com \o <<"/">>, i)
                   THEN i + Len(D_suno_com) + 1 ELSE i + Len(D_suno_ai) + 1
        marks(i) == {j \in from(i)..Len(s) :
                        /\ s[j] \in {"?", "&"}
                        /\ OccursAt(s, <<"i","d","=">>, j + 1)
                        /\ j + 4 <= Len(s)
                        /\ s[j + 4] \in IdChars}
    IN IF starts = {} \/ marks(Min(starts)) = {} THEN None
       ELSE TakeWhile(Drop(s, Max(marks(Min(starts))) + 3), IdChars)

\* The patterns of SunoHandler._resolve_song_id applied to one text.
SunoPatternId(s) ==
    LET p1 == SearchRun(s, {D_suno_com \o P_song, D_suno_ai \o P_song}, IdChars)
    IN IF p1 # None THEN p1 ELSE SunoQueryId(s)

\* SunoHandler._resolve_song_id: the id read from the URL itself, else from
\* the URL the redirects end at (`net`; None when the request fails).
_resolve_song_id(url, net) ==
    IF SunoPatternId(url) # None THEN SunoPatternId(url)
    ELSE IF net = None THEN None
    ELSE SunoPatternId(net)

\* SpotifyHandler._extract_track_id
_extract_track_id(url) == SearchRun(url, {P_track}, Alnum)

\* Whether handler.get_metadata(url) suspends on the network before it
\* returns: YouTube asks oEmbed once it has a video id, Udio, Riffusion and
\* SoundCloud fetch, Suno only to follow redirects, Spotify never.
MetadataSuspends(name, url) ==
    CASE name = N_YouTube -> _extract_video_id(url) # None
      [] name = N_Suno -> SunoPatternId(url) = None
      [] name = N_Spotify -> FALSE
      [] OTHER -> TRUE

\* metadata['embed_url'] of handler.get_metadata(url), or None when it
\* returns no metadata.  `net` is the network's answer: None for a failed
\* request, else the text it gave (for Suno, the URL the redirects end at).
get_metadata(name, url, net) ==
    CASE name = N_YouTube ->
            IF _extract_video_id(url) = None \/ net = None THEN None
            ELSE W_https \o W_www \o D_youtube_com \o P_watch \o _extract_video_id(url)
      [] name = N_Suno ->
            IF _resolve_song_id(url, net) = None THEN None
            ELSE W_https \o D_suno_com \o P_song \o _resolve_song_id(url, net)
      [] name = N_Spotify ->
            IF _extract_track_id(url) = None THEN None ELSE url
      [] OTHER -> IF net = None THEN None ELSE url

(***************************************************************************)
(* utils.py: RateLimiter                                                   *)
(***************************************************************************)
\* The calls kept one second short of the window.
RecentCalls_ShortWindow(calls, t, time_window) ==
    SelectSeq(calls, LAMBDA call_time : t - call_time < time_window - 1)

\* The calls of a user that is_allowed keeps: those younger than the window.
RecentCalls(calls, t, time_window) ==
    SelectSeq(calls, LAMBDA call_time : t - call_time < time_window)

\* The limit taken inclusively (<= in place of <).
is_allowed_Inclusive(calls, t, max_calls, time_window) ==
    Len(RecentCalls(calls, t, time_window)) <= max_calls

\* The call recorded whatever the answer.
calls_after_RecordsDenied(calls, t, max_calls, time_window) ==
    Append(RecentCalls(calls, t, time_window), t)

\* RateLimiter.is_allowed: its answer, and the user's calls after it.
is_allowed(calls, t, max_calls, time_window) ==
    Len(RecentCalls(calls, t, time_window)) < max_calls
calls_after(calls, t, max_calls, time_window) ==
    IF is_allowed(calls, t, max_calls, time_window)
    THEN Append(RecentCalls(calls, t, time_window), t)
    ELSE RecentCalls(calls, t, time_window)

\* The same with the newest call in place of the oldest.
get_remaining_time_Newest(calls, t, time_window) ==
    IF calls = <<>> THEN 0
    ELSE LET newest_call == Max({calls[i] : i \in 1..Len(calls)})
             time_until_reset == (newest_call + time_window) - t
         IN Max({0, time_until_reset})

\* RateLimiter.get_remaining_time, on the calls the limiter holds of a user.
get_remaining_time(calls, t, time_window) ==
    IF calls = <<>> THEN 0
    ELSE LET oldest_call == Min({calls[i] : i \in 1..Len(calls)})
             time_until_reset == (oldest_call + time_window) - t
         IN Max({0, time_until_reset})

\* The two limiters of the bot (main.py, lines 43-44), and no call granted.
Limiters == {"submit", "delete"}
NoGrants == [l \in Limiters |-> [u \in Users |-> <<>>]]

(***************************************************************************)
(* Comma-separated lists (str.split(','), ','.join)                        *)
(***************************************************************************)
RECURSIVE Split(_)
Split(s) ==
    LET first == TakeUntil(s, {","}) IN
    IF Len(first) = Len(s) THEN <<s>>
    ELSE <<first>> \o Split(Drop(s, Len(first) + 1))

RECURSIVE Join(_)
Join(parts) ==
    IF parts = <<>> THEN <<>>
    ELSE IF Len(parts) = 1 THEN parts[1]
    ELSE parts[1] \o <<",">> \o Join(Tail(parts))

\* [p.strip().lower() for p in allowed_platforms.split(',')]
platforms_list(allowed_platforms) ==
    LET parts == Split(allowed_platforms) IN
    [i \in 1..Len(parts) |-> Lower(Strip(parts[i]))]

(***************************************************************************)
(* The state                                                               *)
(***************************************************************************)
VARIABLES
    contests,       \* the committed rows of table contests
    submissions,    \* the committed rows of table submissions
    votes,          \* the committed rows of table votes
    sqlite_seq,     \* AUTOINCREMENT: the largest submission_id ever committed
    db_lock,        \* the SQLite write lock: who holds it, and how
    submit_calls,   \* submit_limiter.calls
    delete_calls,   \* delete_limiter.calls
    now,            \* the wall clock, in seconds
    ticks,          \* how often the clock advanced
    requests,       \* how many commands were invoked
    tasks,          \* the running command handlers, one per task
    reply,          \* the latest answer a handler gave its caller
    rate_limits,    \* the committed rows of table rate_limits
    db_version,     \* PRAGMA user_version of the database file
    schema,         \* the migration statements the database file has applied
    process,        \* the bot process: its entry point and how far it started
    fault,          \* what the storage did to the latest statement
    audit_log,      \* the committed rows of table audit_log, oldest first
    call,           \* the latest call of a function checked on its own
    _handler_cache, \* platform_manager._handler_cache
    backup_dir,     \* the backup files in Config.BACKUP_DIR, by their timestamps
    granted         \* history: per limiter and user, the times is_allowed
                    \* returned True since the user's calls were last reset

store == <<contests, submissions, votes, sqlite_seq>>
\* What the command handlers, once the bot serves, leave alone.
side == <<rate_limits, db_version, schema, process, fault, call, _handler_cache,
          backup_dir, granted>>
vars == <<contests, submissions, votes, sqlite_seq, db_lock, submit_calls,
          delete_calls, now, ticks, requests, tasks, reply, side, audit_log>>

NoLock == [holder |-> 0, kind |-> "none"]
NoContest ==
    [contest_id |-> <<>>, public_channel_id |-> 0, review_channel_id |-> 0,
     allowed_platforms |-> None, max_submissions_per_user |-> 0, status |-> "none"]
NoSubmission ==
    [submission_id |-> 0, contest_id |-> <<>>, user_id |-> 0, song_name |-> <<>>,
     platform |-> None, suno_url |-> None,
     public_message_id |-> 0, review_message_id |-> 0]

\* The bot process once on_ready has started it (main.py line 103): it
\* listens for commands.
ServingProcess ==
    [entry |-> "main.py", stage |-> "serving", phase |-> "none",
     current_version |-> 0, target_version |-> 0, failure |-> "none"]

\* No function has been called on its own.
NoCall == [fn |-> "none", input |-> <<>>, output |-> <<>>]

\* A task that runs no handler.
IdleTask ==
    [op |-> "idle", pc |-> "idle", user |-> 0, contest_id |-> <<>>,
     song_name |-> <<>>, url |-> <<>>, contest_data |-> NoContest,
     handler |-> None, row |-> NoSubmission, privileged |-> FALSE,
     submission_count |-> 0, deletion_errors |-> <<>>]

(***************************************************************************)
(* The inputs of the model                                                 *)
(***************************************************************************)
CID_A == <<"s","2","5">>
CID_BAD == <<"x","-","-","y">>
SONG_OK == <<"O","c","e","a","n">>
SONG_BAD == <<" ">>
VideoX == <<"X","X","X","X","X","X","X","X","X","X","X">>
\* https://youtube.com/watch?v=XXXXXXXXXXX
URL_YT == W_https \o D_youtube_com \o P_watch \o VideoX
\* https://youtu.be/XXXXXXXXXXX?t=1 : the same video behind other noise
URL_YT_SHORT == W_https \o D_youtu_be \o <<"/">> \o VideoX \o <<"?","t","=","1">>
\* https://open.spotify.com/track/abc
URL_SPOTIFY ==
    W_https \o <<"o","p","e","n",".">> \o D_spotify_com \o <<"/">> \o P_track \o <<"a","b","c">>
\* https://example.com/x : no handler's domain
URL_OTHER == W_https \o <<"e","x","a","m","p","l","e",".","c","o","m","/","x">>
\* ftp://youtube.com/x : not an HTTP(S) URL
URL_BAD == <<"f","t","p",":","/","/">> \o D_youtube_com \o <<"/","x">>

\* What a user may submit: every valid URL, and one request for each way of
\* failing the validators.
SubmitInputs ==
    [contest_id : {CID_A}, song_name : {SONG_OK},
     url : {URL_YT, URL_YT_SHORT, URL_SPOTIFY, URL_OTHER}]
    \cup {[contest_id |-> CID_BAD, song_name |-> SONG_OK, url |-> URL_YT],
          [contest_id |-> CID_A, song_name |-> SONG_BAD, url |-> URL_YT],
          [contest_id |-> CID_A, song_name |-> SONG_OK, url |-> URL_BAD]}

\* What a contest manager may create: /contest create with its options.
PL_youtube == <<"Y","o","u","T","u","b","e">>
PL_vimeo == <<"v","i","m","e","o">>
CreateInputs ==
    {[contest_id |-> CID_A, public_channel |-> 1, review_channel |-> 2,
      allowed_platforms |-> None, submission_limit |-> 1],
     [contest_id |-> CID_A, public_channel |-> 1, review_channel |-> 2,
      allowed_platforms |-> None, submission_limit |-> 2],
     [contest_id |-> CID_A, public_channel |-> 1, review_channel |-> 2,
      allowed_platforms |-> PL_youtube, submission_limit |-> 2],
     [contest_id |-> CID_A, public_channel |-> 3, review_channel |-> 4,
      allowed_platforms |-> PL_vimeo, submission_limit |-> 1],
     [contest_id |-> CID_BAD, public_channel |-> 3, review_channel |-> 4,
      allowed_platforms |-> None, submission_limit |-> 1]}

\* What a contest manager may edit: /contest edit with its options (0 and
\* "" stand for an option left out).
EditInputs ==
    {[contest_id |-> CID_A, public_channel |-> 0, review_channel |-> 0,
      submission_limit |-> 2, status |-> ""],
     [contest_id |-> CID_A, public_channel |-> 0, review_channel |-> 0,
      submission_limit |-> 0, status |-> "closed"],
     [contest_id |-> CID_A, public_channel |-> 0, review_channel |-> 0,
      submission_limit |-> 0, status |-> ""]}

\* What the network or the chat platform does to one request of a handler.
NetAnswers == {None, <<"o","k">>}
PostOutcomes == {"ok", "Forbidden", "HTTPException"}

\* The contest managers among the users.
Managers == {1}

(***************************************************************************)
(* Helpers of the handlers                                                 *)
(***************************************************************************)
\* The handler of task t returns: its answer is recorded, the task is free.
Finish(t, kind) ==
    /\ tasks' = [tasks EXCEPT ![t] = IdleTask]
    /\ reply' = [task |-> t, op |-> tasks[t].op, kind |-> kind, value |-> 0]

\* Another connection holds a lock that makes a read fail (EXCLUSIVE), or a
\* write or BEGIN EXCLUSIVE fail (any lock): sqlite3 waits out its timeout,
\* blocking the event loop, and raises OperationalError.
ReadBlocked(t) == db_lock.kind = "exclusive" /\ db_lock.holder # t
WriteBlocked(t) == db_lock.kind # "none" /\ db_lock.holder # t

\* log_action(user_id, action, details), lines 282-293: the INSERT INTO
\* audit_log runs on a connection of its own.  `lock` is the lock held on the
\* database when it runs: under the pending write of its caller (or of any
\* other connection) the INSERT waits out the timeout and raises "database
\* is locked", which `except Exception` only logs.
log_action(log, user_id, action, lock) ==
    IF lock.kind # "none" THEN log
    ELSE Append(log, [user_id |-> user_id, action |-> action])

\* The lookup without its status filter.
OpenContests_AnyStatus(contest_id) ==
    {c \in contests : c.contest_id = contest_id}

\* SELECT * FROM contests WHERE contest_id = ? AND status IN ('active', 'voting')
OpenContests(contest_id) ==
    {c \in contests : c.contest_id = contest_id /\ c.status \in {"active", "voting"}}

\* The count taken one too low (a limit check with > in place of >=).
user_submission_count_OneLess(contest_id, user_id) ==
    LET n == Cardinality({r \in submissions :
                             r.contest_id = contest_id /\ r.user_id = user_id})
    IN IF n = 0 THEN 0 ELSE n - 1

\* The count taken over the whole contest, not over the user's rows.
user_submission_count_AllUsers(contest_id, user_id) ==
    Cardinality({r \in submissions : r.contest_id = contest_id})

\* SELECT COUNT(*) FROM submissions WHERE contest_id = ? AND user_id = ?
user_submission_count(contest_id, user_id) ==
    Cardinality({r \in submissions : r.contest_id = contest_id /\ r.user_id = user_id})

\* The table without its UNIQUE constraint.
SubmissionConstraintsHold_NoUnique(row) ==
    /\ Len(row.song_name) <= MAX_SONG_NAME_LENGTH
    /\ \E c \in contests : c.contest_id = row.contest_id

\* The constraints of table submissions on a new row: UNIQUE(contest_id,
\* user_id, suno_url), CHECK(length(song_name) <= 100) and the foreign key.
SubmissionConstraintsHold(row) ==
    /\ ~\E r \in submissions :
          /\ r.contest_id = row.contest_id
          /\ r.user_id = row.user_id
          /\ r.suno_url = row.suno_url
    /\ Len(row.song_name) <= MAX_SONG_NAME_LENGTH
    /\ \E c \in contests : c.contest_id = row.contest_id

\* contest_data['allowed_platforms'] admits the handler.
PlatformAllowed(contest_data, handler) ==
    \/ contest_data.allowed_platforms = None
    \/ contest_data.allowed_platforms = <<>>
    \/ \E i \in 1..Len(Split(contest_data.allowed_platforms)) :
          Split(contest_data.allowed_platforms)[i] = Lower(handler)

\* A command runs as a new task of the event loop: the first free one.
Free(t) ==
    /\ tasks[t].op = "idle"
    /\ \A t2 \in Tasks : tasks[t2].op = "idle" => t <= t2

(***************************************************************************)
(* main.py: submit                                                         *)
(***************************************************************************)
\* /submit is invoked; the handler suspends in ctx.defer().
SubmitRequest(t, u, in) ==
    /\ UNCHANGED <<side, audit_log>>
    /\ Free(t)
    /\ requests < MaxRequests
    /\ requests' = requests + 1
    /\ tasks' = [tasks EXCEPT ![t] =
                    [IdleTask EXCEPT !.op = "submit", !.pc = "deferred", !.user = u,
                                     !.contest_id = in.contest_id,
                                     !.song_name = in.song_name, !.url = in.url]]
    /\ UNCHANGED <<store, db_lock, submit_calls, delete_calls, now, ticks, reply>>

\* Lines 524-569, with the exclusive transaction open and the metadata (its
\* embed_url, or None) at hand: the insert, the channel lookup, and the
\* suspension in review_channel.send().
AfterMetadata(t, tk, embed_url) ==
    LET row == [submission_id |-> sqlite_seq + 1, contest_id |-> tk.contest_id,
                user_id |-> tk.user, song_name |-> tk.song_name,
                platform |-> tk.handler, suno_url |-> embed_url,
                public_message_id |-> 0, review_message_id |-> 0]
    IN IF embed_url = None
       THEN /\ db_lock' = NoLock
            /\ Finish(t, "MetadataUnavailable")
       ELSE IF ~SubmissionConstraintsHold(row)
       THEN \* sqlite3.IntegrityError, caught by `except Exception` (line 645)
            /\ db_lock' = NoLock
            /\ Finish(t, "GenericError")
       ELSE \E channels_found \in BOOLEAN :
            IF ~channels_found
            THEN /\ db_lock' = NoLock
                 /\ Finish(t, "ChannelsMissing")
            ELSE /\ db_lock' = [holder |-> t, kind |-> "exclusive"]
                 /\ tasks' = [tasks EXCEPT ![t] =
                                 [tk EXCEPT !.pc = "posting_review", !.row = row]]
                 /\ UNCHANGED reply

\* Lines 435-523: the rate limit, the validators, the contest lookup, BEGIN
\* EXCLUSIVE, the limit check, the handler and the allowed platforms, up to
\* the suspension in handler.get_metadata() (or, for a handler that needs no
\* network, on to the insert).  A SELECT or BEGIN EXCLUSIVE that finds the
\* database locked raises outside the inner try: the outer handler (line
\* 653) answers only if the interaction was not deferred, so it says nothing.
SubmitAdmit(t) ==
    /\ UNCHANGED <<side, audit_log>>
    /\ tasks[t].op = "submit"
    /\ tasks[t].pc = "deferred"
    /\ LET tk == tasks[t]
           calls == submit_calls[tk.user]
           handler == get_platform_handler(tk.url)
       IN /\ submit_calls' = [submit_calls EXCEPT ![tk.user] =
                 calls_after(calls, now, SubmitMaxCalls, SubmitTimeWindow)]
          /\ IF ~is_allowed(calls, now, SubmitMaxCalls, SubmitTimeWindow)
             THEN Finish(t, "RateLimited") /\ UNCHANGED db_lock
             ELSE IF ~validate_contest_id(tk.contest_id)
                     \/ ~validate_song_name(tk.song_name)
                     \/ ~validate_url(tk.url)
             THEN Finish(t, "InvalidInput") /\ UNCHANGED db_lock
             ELSE IF ReadBlocked(t)
             THEN Finish(t, "NoAnswer") /\ UNCHANGED db_lock
             ELSE IF OpenContests(tk.contest_id) = {}
             THEN Finish(t, "ContestNotFoundOrClosed") /\ UNCHANGED db_lock
             ELSE IF WriteBlocked(t)
             THEN Finish(t, "NoAnswer") /\ UNCHANGED db_lock
             ELSE LET contest_data == CHOOSE c \in OpenContests(tk.contest_id) : TRUE
                      limit == contest_data.max_submissions_per_user
                      tk2 == [tk EXCEPT !.contest_data = contest_data,
                                        !.handler = handler, !.pc = "fetching"]
                  IN IF user_submission_count(tk.contest_id, tk.user) >= limit
                     THEN Finish(t, "LimitExceeded") /\ UNCHANGED db_lock
                     ELSE IF handler = None
                     THEN Finish(t, "UnsupportedPlatform") /\ UNCHANGED db_lock
                     ELSE IF ~PlatformAllowed(contest_data, handler)
                     THEN Finish(t, "PlatformNotAllowed") /\ UNCHANGED db_lock
                     ELSE IF MetadataSuspends(handler, tk.url)
                     THEN /\ tasks' = [tasks EXCEPT ![t] = tk2]
                          /\ db_lock' = [holder |-> t, kind |-> "exclusive"]
                          /\ UNCHANGED reply
                     ELSE AfterMetadata(t, tk2, get_metadata(handler, tk.url, None))
    /\ UNCHANGED <<store, delete_calls, now, ticks, requests>>

\* handler.get_metadata() returns what the network allowed.
SubmitFetched(t, net) ==
    /\ UNCHANGED <<side, audit_log>>
    /\ tasks[t].op = "submit"
    /\ tasks[t].pc = "fetching"
    /\ AfterMetadata(t, tasks[t], get_metadata(tasks[t].handler, tasks[t].url, net))
    /\ UNCHANGED <<store, submit_calls, delete_calls, now, ticks, requests>>

\* A failed post answered without the ROLLBACK: the row is committed when
\* get_db leaves its block.
PostFailed_NoRollback(t, outcome) ==
    /\ db_lock' = NoLock
    /\ Finish(t, IF outcome = "Forbidden" THEN "PostingForbidden" ELSE "PostingFailed")
    /\ submissions' = submissions \cup {tasks[t].row}
    /\ sqlite_seq' = tasks[t].row.submission_id
    /\ UNCHANGED <<contests, votes>>

\* A failed post answered with the transaction left open.
PostFailed_LockKept(t, outcome) ==
    /\ Finish(t, IF outcome = "Forbidden" THEN "PostingForbidden" ELSE "PostingFailed")
    /\ UNCHANGED <<store, db_lock>>

\* A failed post: ROLLBACK and the error answer (lines 629-643).
PostFailed(t, outcome) ==
    /\ db_lock' = NoLock
    /\ Finish(t, IF outcome = "Forbidden" THEN "PostingForbidden" ELSE "PostingFailed")
    /\ UNCHANGED store

\* review_channel.send() returns or raises (line 569).
SubmitReviewPosted(t, outcome) ==
    /\ UNCHANGED <<side, audit_log>>
    /\ tasks[t].op = "submit"
    /\ tasks[t].pc = "posting_review"
    /\ IF outcome = "ok"
       THEN /\ tasks' = [tasks EXCEPT ![t].pc = "posting_public"]
            /\ UNCHANGED <<store, db_lock, reply>>
       ELSE PostFailed(t, outcome)
    /\ UNCHANGED <<submit_calls, delete_calls, now, ticks, requests>>

\* public_channel.send() returns or raises (line 586).
SubmitPublicPosted(t, outcome) ==
    /\ UNCHANGED <<side, audit_log>>
    /\ tasks[t].op = "submit"
    /\ tasks[t].pc = "posting_public"
    /\ IF outcome = "ok"
       THEN /\ tasks' = [tasks EXCEPT ![t].pc = "reacting"]
            /\ UNCHANGED <<store, db_lock, reply>>
       ELSE PostFailed(t, outcome)
    /\ UNCHANGED <<submit_calls, delete_calls, now, ticks, requests>>

\* public_message.add_reaction() returns or raises (line 592); on return the
\* message ids are stored and the transaction is committed (lines 595-602),
\* and the handler suspends in ctx.followup.send() (line 627).
SubmitReacted(t, outcome) ==
    /\ UNCHANGED side
    /\ tasks[t].op = "submit"
    /\ tasks[t].pc = "reacting"
    /\ IF outcome = "ok"
       THEN LET row == [tasks[t].row EXCEPT
                           !.public_message_id = tasks[t].row.submission_id,
                           !.review_message_id = tasks[t].row.submission_id]
            IN /\ submissions' = submissions \cup {row}
               /\ sqlite_seq' = row.submission_id
               /\ db_lock' = NoLock
               /\ tasks' = [tasks EXCEPT ![t].pc = "responding", ![t].row = row]
               /\ audit_log' = log_action(audit_log, tasks[t].user, "submit", NoLock)
               /\ UNCHANGED <<contests, votes, reply>>
       ELSE PostFailed(t, outcome) /\ UNCHANGED audit_log
    /\ UNCHANGED <<submit_calls, delete_calls, now, ticks, requests>>

\* ctx.followup.send(success_embed) returns (line 627); or it raises, the
\* handlers' ROLLBACK finds no transaction and raises again, and the outer
\* handler says nothing.  The row is committed either way.
SubmitResponded(t, sent) ==
    /\ UNCHANGED <<side, audit_log>>
    /\ tasks[t].op = "submit"
    /\ tasks[t].pc = "responding"
    /\ Finish(t, IF sent THEN "Accepted" ELSE "NoAnswer")
    /\ UNCHANGED <<store, db_lock, submit_calls, delete_calls, now, ticks, requests>>

(***************************************************************************)
(* main.py: create_contest                                                 *)
(***************************************************************************)
\* /contest create is invoked by a contest manager; the handler suspends in
\* ctx.defer().
CreateRequest(t, u, in) ==
    /\ UNCHANGED <<side, audit_log>>
    /\ Free(t)
    /\ requests < MaxRequests
    /\ requests' = requests + 1
    /\ tasks' = [tasks EXCEPT ![t] =
                    [IdleTask EXCEPT
                        !.op = "create", !.pc = "deferred", !.user = u,
                        !.contest_id = in.contest_id,
                        !.contest_data =
                            [contest_id |-> in.contest_id,
                             public_channel_id |-> in.public_channel,
                             review_channel_id |-> in.review_channel,
                             allowed_platforms |-> in.allowed_platforms,
                             max_submissions_per_user |-> in.submission_limit,
                             status |-> "active"]]]
    /\ UNCHANGED <<store, db_lock, submit_calls, delete_calls, now, ticks, reply>>

\* platform_str (lines 154-168): None for no list, "invalid" for a list with
\* an unknown platform, else the normalised list joined by commas.
InvalidPlatforms == <<"invalid">>
platform_str(allowed_platforms) ==
    IF allowed_platforms = None \/ allowed_platforms = <<>> THEN None
    ELSE LET lst == platforms_list(allowed_platforms) IN
         IF \E i \in 1..Len(lst) : lst[i] \notin valid_platforms
         THEN InvalidPlatforms
         ELSE Join(lst)

\* The constraints without UNIQUE(public_channel_id, review_channel_id).
ContestConstraintsHold_NoPair(row) ==
    /\ ~\E c \in contests : c.contest_id = row.contest_id
    /\ Len(row.contest_id) <= MAX_CONTEST_ID_LENGTH
    /\ row.max_submissions_per_user \in MinSubmissionLimit..MaxSubmissionLimit

\* The constraints of table contests on a new row: the primary key,
\* UNIQUE(public_channel_id, review_channel_id) and the CHECKs.
ContestConstraintsHold(row) ==
    /\ ~\E c \in contests : c.contest_id = row.contest_id
    /\ ~\E c \in contests :
          /\ c.public_channel_id = row.public_channel_id
          /\ c.review_channel_id = row.review_channel_id
    /\ Len(row.contest_id) <= MAX_CONTEST_ID_LENGTH
    /\ row.max_submissions_per_user \in MinSubmissionLimit..MaxSubmissionLimit

\* Lines 146-202: the validation, the INSERT (which takes the write lock and
\* stays uncommitted), and the suspension in ctx.followup.send().
CreateInsert(t) ==
    /\ UNCHANGED side
    /\ tasks[t].op = "create"
    /\ tasks[t].pc = "deferred"
    /\ LET tk == tasks[t]
           pstr == platform_str(tk.contest_data.allowed_platforms)
           row == [tk.contest_data EXCEPT !.allowed_platforms = pstr]
       IN IF ~validate_contest_id(tk.contest_id)
          THEN Finish(t, "InvalidContestId") /\ UNCHANGED <<db_lock, audit_log>>
          ELSE IF pstr = InvalidPlatforms
          THEN Finish(t, "InvalidPlatformList") /\ UNCHANGED <<db_lock, audit_log>>
          ELSE IF WriteBlocked(t)
          THEN Finish(t, "GenericError") /\ UNCHANGED <<db_lock, audit_log>>
          ELSE IF ~ContestConstraintsHold(row)
          THEN Finish(t, "DuplicateContestId") /\ UNCHANGED <<db_lock, audit_log>>
          ELSE /\ tasks' = [tasks EXCEPT ![t].pc = "responding",
                                         ![t].contest_data = row]
               /\ db_lock' = [holder |-> t, kind |-> "reserved"]
               /\ audit_log' = log_action(audit_log, tk.user, "create_contest",
                                           [holder |-> t, kind |-> "reserved"])
               /\ UNCHANGED reply
    /\ UNCHANGED <<store, submit_calls, delete_calls, now, ticks, requests>>

\* ctx.followup.send(embed) returns, and get_db commits the INSERT; or it
\* raises, and get_db rolls the INSERT back (lines 202-214).
CreateResponded(t, sent) ==
    /\ UNCHANGED <<side, audit_log>>
    /\ tasks[t].op = "create"
    /\ tasks[t].pc = "responding"
    /\ db_lock' = NoLock
    /\ IF sent
       THEN /\ contests' = contests \cup {tasks[t].contest_data}
            /\ Finish(t, "ContestCreated")
       ELSE /\ UNCHANGED contests
            /\ Finish(t, "GenericError")
    /\ UNCHANGED <<submissions, votes, sqlite_seq, submit_calls, delete_calls,
                   now, ticks, requests>>

(***************************************************************************)
(* main.py: edit_contest                                                   *)
(***************************************************************************)
\* The contests after the UPDATE of lines 244-255: the options given are
\* set on the row of contest_id, the others are left as they are.
UpdatedContests(in) ==
    {IF c.contest_id # in.contest_id THEN c
     ELSE [c EXCEPT
             !.public_channel_id =
                 IF in.public_channel # 0 THEN in.public_channel ELSE @,
             !.review_channel_id =
                 IF in.review_channel # 0 THEN in.review_channel ELSE @,
             !.max_submissions_per_user =
                 IF in.submission_limit # 0 THEN in.submission_limit ELSE @,
             !.status = IF in.status # "" THEN in.status ELSE @] : c \in contests}

\* The constraints of table contests on the UPDATE:
\* UNIQUE(public_channel_id, review_channel_id).
EditConstraintsHold(in) ==
    \A c1, c2 \in UpdatedContests(in) :
       (/\ c1.public_channel_id = c2.public_channel_id
        /\ c1.review_channel_id = c2.review_channel_id)
       => c1.contest_id = c2.contest_id

\* Whether edit_contest reaches the end of its with-block, where get_db
\* commits: line 286 reads `description`, a name the function never binds,
\* so building the answer raises NameError and get_db rolls the UPDATE back.
EditReachesCommit == FALSE

\* /contest edit, lines 228-293: it runs without suspending up to its answer.
\* The UPDATE raises when the database is locked or the new channel pair is
\* taken; it finds no row; or it is followed by log_action (under the
\* UPDATE's own lock) and the answer.
EditContest(t, u, in) ==
    /\ UNCHANGED side
    /\ Free(t)
    /\ requests < MaxRequests
    /\ requests' = requests + 1
    /\ IF /\ in.public_channel = 0
          /\ in.review_channel = 0
          /\ in.submission_limit = 0
          /\ in.status = ""
       THEN /\ reply' = [task |-> t, op |-> "edit", kind |-> "NoFieldsToEdit", value |-> 0]
            /\ UNCHANGED <<contests, audit_log>>
       ELSE IF WriteBlocked(t)
       THEN /\ reply' = [task |-> t, op |-> "edit", kind |-> "GenericError", value |-> 0]
            /\ UNCHANGED <<contests, audit_log>>
       ELSE IF ~\E c \in contests : c.contest_id = in.contest_id
       THEN /\ reply' = [task |-> t, op |-> "edit", kind |-> "ContestNotFound", value |-> 0]
            /\ UNCHANGED <<contests, audit_log>>
       ELSE IF ~EditConstraintsHold(in)
       THEN /\ reply' = [task |-> t, op |-> "edit", kind |-> "GenericError", value |-> 0]
            /\ UNCHANGED <<contests, audit_log>>
       ELSE /\ audit_log' = log_action(audit_log, u, "edit_contest",
                                        [holder |-> t, kind |-> "reserved"])
            /\ IF EditReachesCommit
               THEN /\ reply' = [task |-> t, op |-> "edit", kind |-> "ContestUpdated",
                                 value |-> 0]
                    /\ contests' = UpdatedContests(in)
               ELSE /\ reply' = [task |-> t, op |-> "edit", kind |-> "GenericError",
                                 value |-> 0]
                    /\ UNCHANGED contests
    /\ UNCHANGED <<submissions, votes, sqlite_seq, db_lock, submit_calls,
                   delete_calls, now, ticks, tasks>>

(***************************************************************************)
(* main.py: delete_submission                                              *)
(***************************************************************************)
\* SELECT s.*, ... FROM submissions s JOIN contests c ... WHERE s.submission_id = ?
SubmissionsById(submission_id) ==
    {r \in submissions :
        /\ r.submission_id = submission_id
        /\ \E c \in contests : c.contest_id = r.contest_id}

\* The permission check dropped: anyone may delete.
MayDelete_Anyone(submission, u, privileged) == TRUE

\* is_owner or is_admin or is_manager (lines 693-697); `privileged` is the
\* administrator permission or the Contest Manager role of the requester.
MayDelete(submission, u, privileged) ==
    submission.user_id = u \/ privileged

\* What the chat platform does to the deletion of one posted message.
MessageOutcomes == {"ok", "NotFound", "Forbidden", "HTTPException"}

\* A failed deletion of the posted messages abandons the handler before
\* its DELETE: the error goes to the outer handler.
DeletionBlocked_ByMessages(public_outcome, review_outcome) ==
    \/ public_outcome \in {"Forbidden", "HTTPException"}
    \/ review_outcome \in {"Forbidden", "HTTPException"}

\* Whether the outcome of deleting the posted messages keeps the handler
\* from its DELETE: never, every error is caught where it is raised (lines
\* 739-761).
DeletionBlocked(public_outcome, review_outcome) == FALSE

\* deletion_errors (lines 732-761): a message that is gone already is no
\* error, a refusal or any other failure is a warning.
deletion_errors(public_outcome, review_outcome) ==
    (CASE public_outcome = "Forbidden" -> <<"Missing permissions for public channel">>
       [] public_outcome = "HTTPException" -> <<"Failed to delete public message">>
       [] OTHER -> <<>>)
    \o
    (CASE review_outcome = "Forbidden" -> <<"Missing permissions for review channel">>
       [] review_outcome = "HTTPException" -> <<"Failed to delete review message">>
       [] OTHER -> <<>>)

\* /submission delete, lines 667-728: the rate limit, the lookup and the
\* permission check, up to the suspension in the confirmation view.
DeleteRequest(t, u, submission_id, privileged) ==
    /\ UNCHANGED <<side, audit_log>>
    /\ Free(t)
    /\ requests < MaxRequests
    /\ requests' = requests + 1
    /\ delete_calls' = [delete_calls EXCEPT ![u] =
           calls_after(delete_calls[u], now, DeleteMaxCalls, DeleteTimeWindow)]
    /\ IF ~is_allowed(delete_calls[u], now, DeleteMaxCalls, DeleteTimeWindow)
       THEN reply' = [task |-> t, op |-> "delete", kind |-> "RateLimited", value |-> 0] /\ UNCHANGED tasks
       ELSE IF ReadBlocked(t)
       THEN reply' = [task |-> t, op |-> "delete", kind |-> "GenericError", value |-> 0] /\ UNCHANGED tasks
       ELSE IF SubmissionsById(submission_id) = {}
       THEN reply' = [task |-> t, op |-> "delete", kind |-> "SubmissionNotFound", value |-> 0] /\ UNCHANGED tasks
       ELSE LET submission == CHOOSE r \in SubmissionsById(submission_id) : TRUE IN
            IF ~MayDelete(submission, u, privileged)
            THEN reply' = [task |-> t, op |-> "delete", kind |-> "NotAuthorized", value |-> 0] /\ UNCHANGED tasks
            ELSE /\ tasks' = [tasks EXCEPT ![t] =
                                 [IdleTask EXCEPT !.op = "delete", !.pc = "confirming",
                                                  !.user = u, !.row = submission,
                                                  !.privileged = privileged]]
                 /\ UNCHANGED reply
    /\ UNCHANGED <<store, db_lock, submit_calls, now, ticks>>

\* The confirmation view returns (line 728).  Unless the user confirmed, the
\* deletion is cancelled.  Else the posted messages are deleted as far as the
\* chat platform allows (lines 731-761), the DELETE takes the write lock and
\* stays uncommitted (line 764), log_action runs under that lock (line 770),
\* and the handler suspends in ctx.edit() (line 785).  A DELETE that finds
\* the database locked raises, and the handler answers with the error.
DeleteConfirmed(t, value, public_outcome, review_outcome) ==
    /\ UNCHANGED side
    /\ tasks[t].op = "delete"
    /\ tasks[t].pc = "confirming"
    /\ IF ~value
       THEN Finish(t, "Cancelled") /\ UNCHANGED <<db_lock, audit_log>>
       ELSE IF DeletionBlocked(public_outcome, review_outcome) \/ WriteBlocked(t)
       THEN Finish(t, "GenericError") /\ UNCHANGED <<db_lock, audit_log>>
       ELSE /\ tasks' = [tasks EXCEPT
                            ![t].pc = "responding",
                            ![t].deletion_errors =
                                deletion_errors(public_outcome, review_outcome)]
            /\ db_lock' = [holder |-> t, kind |-> "reserved"]
            /\ audit_log' = log_action(audit_log, tasks[t].user, "delete_submission",
                                        [holder |-> t, kind |-> "reserved"])
            /\ UNCHANGED reply
    /\ UNCHANGED <<store, submit_calls, delete_calls, now, ticks, requests>>

\* The submission row removed alone: the votes on it stay.
DeleteSubmissionRows_NoCascade(submission_id) ==
    [submissions |-> {r \in submissions : r.submission_id # submission_id},
     votes |-> votes]

\* DELETE FROM submissions WHERE submission_id = ? (line 764) under PRAGMA
\* foreign_keys = ON (database.py line 21): the votes on the row go with it
\* (ON DELETE CASCADE, database.py line 88).
DeleteSubmissionRows(submission_id) ==
    [submissions |-> {r \in submissions : r.submission_id # submission_id},
     votes |-> {v \in votes : v.submission_id # submission_id}]

\* ctx.edit() returns, and get_db commits the DELETE (votes on the row go
\* with it: ON DELETE CASCADE); or it raises, and get_db rolls it back.  The
\* answer carries the warnings: its value is how many there are.
DeleteResponded(t, sent) ==
    /\ UNCHANGED <<side, audit_log>>
    /\ tasks[t].op = "delete"
    /\ tasks[t].pc = "responding"
    /\ db_lock' = NoLock
    /\ tasks' = [tasks EXCEPT ![t] = IdleTask]
    /\ IF sent
       THEN /\ submissions' = DeleteSubmissionRows(tasks[t].row.submission_id).submissions
            /\ votes' = DeleteSubmissionRows(tasks[t].row.submission_id).votes
            /\ reply' = [task |-> t, op |-> "delete", kind |-> "Deleted",
                         value |-> Len(tasks[t].deletion_errors)]
       ELSE /\ UNCHANGED <<submissions, votes>>
            /\ reply' = [task |-> t, op |-> "delete", kind |-> "GenericError",
                         value |-> 0]
    /\ UNCHANGED <<contests, sqlite_seq, submit_calls, delete_calls, now, ticks,
                   requests>>

(***************************************************************************)
(* The clock                                                               *)
(***************************************************************************)
\* Time passes: a second, or a whole rate-limit window.
Tick(d) ==
    /\ UNCHANGED <<side, audit_log>>
    /\ ticks < MaxTicks
    /\ ticks' = ticks + 1
    /\ now' = now + d
    /\ UNCHANGED <<store, db_lock, submit_calls, delete_calls, requests, tasks, reply>>

(***************************************************************************)
(* The specification                                                       *)
(***************************************************************************)
\* The row create_contest inserts for an input it accepts.
ContestRow(in, status) ==
    [contest_id |-> in.contest_id, public_channel_id |-> in.public_channel,
     review_channel_id |-> in.review_channel,
     allowed_platforms |-> platform_str(in.allowed_platforms),
     max_submissions_per_user |-> in.submission_limit, status |-> status]

\* The stores the bot may start on: the database file outlives the process.
\* A fresh one, or one that holds a contest create_contest made, in the
\* status it was created with or (for the first kind of contest) in any
\* other status of the schema.
InitialContests ==
    {{}} \cup
    {{ContestRow(in, status)} :
        in \in {i \in CreateInputs :
                   /\ validate_contest_id(i.contest_id)
                   /\ platform_str(i.allowed_platforms) # InvalidPlatforms},
        status \in {"active"}}
    \cup
    {{ContestRow(in, status)} :
        in \in {i \in CreateInputs :
                   /\ validate_contest_id(i.contest_id)
                   /\ i.allowed_platforms = None
                   /\ i.submission_limit = MinSubmissionLimit},
        status \in {"draft", "voting", "closed"}}

Init ==
    /\ contests \in InitialContests
    /\ submissions = {}
    /\ votes = {}
    /\ sqlite_seq = 0
    /\ db_lock = NoLock
    /\ submit_calls = [u \in Users |-> <<>>]
    /\ delete_calls = [u \in Users |-> <<>>]
    /\ now = 0
    /\ ticks = 0
    /\ requests = 0
    /\ tasks = [t \in Tasks |-> IdleTask]
    /\ reply = [task |-> 0, op |-> "idle", kind |-> "none", value |-> 0]
    /\ rate_limits = {}
    /\ db_version = 0
    /\ schema = {}
    /\ process = ServingProcess
    /\ fault = "none"
    /\ audit_log = <<>>
    /\ call = NoCall
    /\ _handler_cache = {}
    /\ backup_dir = {}
    /\ granted = NoGrants

Next ==
    \/ \E t \in Tasks, u \in Users, in \in SubmitInputs : SubmitRequest(t, u, in)
    \/ \E t \in Tasks : SubmitAdmit(t)
    \/ \E t \in Tasks, net \in NetAnswers : SubmitFetched(t, net)
    \/ \E t \in Tasks, o \in PostOutcomes : SubmitReviewPosted(t, o)
    \/ \E t \in Tasks, o \in PostOutcomes : SubmitPublicPosted(t, o)
    \/ \E t \in Tasks, o \in PostOutcomes : SubmitReacted(t, o)
    \/ \E t \in Tasks, sent \in BOOLEAN : SubmitResponded(t, sent)
    \/ \E t \in Tasks, u \in Managers, in \in CreateInputs : CreateRequest(t, u, in)
    \/ \E t \in Tasks : CreateInsert(t)
    \/ \E t \in Tasks, sent \in BOOLEAN : CreateResponded(t, sent)
    \/ \E t \in Tasks, u \in Managers, in \in EditInputs : EditContest(t, u, in)
    \/ \E t \in Tasks, u \in Users, sid \in 1..(sqlite_seq + 1), p \in BOOLEAN :
          DeleteRequest(t, u, sid, p)
    \/ \E t \in Tasks, v \in BOOLEAN : DeleteConfirmed(t, v, "ok", "ok")
    \/ \E t \in Tasks, sent \in BOOLEAN : DeleteResponded(t, sent)
    \/ \E d \in {1, SubmitTimeWindow} : Tick(d)

Spec == Init /\ [][Next]_vars

(***************************************************************************)
(* Properties                                                              *)
(***************************************************************************)
\* The handler of task t, a /submit, returns in this step.
SubmitEnds(t) == tasks[t].op = "submit" /\ tasks'[t].op = "idle"

\* A request the validators pass and a registered platform serves.
OtherwiseValid(tk) ==
    /\ validate_contest_id(tk.contest_id)
    /\ validate_song_name(tk.song_name)
    /\ validate_url(tk.url)
    /\ get_platform_handler(tk.url) # None

\* The answers that report a failure of the network or of the chat platform.
EnvironmentFailures ==
    {"MetadataUnavailable", "ChannelsMissing", "PostingForbidden", "PostingFailed"}

\* The rows of user_id in contest_id among rows.
RowsOf(rows, contest_id, user_id) ==
    {r \in rows : r.contest_id = contest_id /\ r.user_id = user_id}

\* C1: when two /submit requests of one user run concurrently against one
\* contest with max_submissions_per_user = 1, both otherwise valid, the one
\* that has not committed ends accepted or rejected with LimitExceeded or
\* DuplicateSubmission (or with a failure of the network or of the chat
\* platform), never with a generic or storage outcome.
C1_ConcurrentLoserOutcome ==
    [][\A t \in Tasks, t2 \in Tasks :
          (/\ t # t2
           /\ SubmitEnds(t)
           /\ tasks[t].pc # "responding"
           /\ tasks[t2].op = "submit"
           /\ tasks[t2].user = tasks[t].user
           /\ tasks[t2].contest_id = tasks[t].contest_id
           /\ OtherwiseValid(tasks[t])
           /\ OtherwiseValid(tasks[t2])
           /\ \E c \in contests :
                 /\ c.contest_id = tasks[t].contest_id
                 /\ c.status \in {"active", "voting"}
                 /\ c.max_submissions_per_user = 1)
          => reply'.kind \in {"Accepted", "LimitExceeded", "DuplicateSubmission"}
                                \cup EnvironmentFailures]_vars

\* C2: at the step that commits a submission row, the rows of its (contest,
\* user), the new one included, number at most the max_submissions_per_user
\* the contest record holds at that step.
C2_CountWithinLimitAtCommit ==
    [][\A r \in submissions' \ submissions :
          \E c \in contests' :
             /\ c.contest_id = r.contest_id
             /\ Cardinality(RowsOf(submissions', r.contest_id, r.user_id))
                   <= c.max_submissions_per_user]_vars

\* A user has filled a limit of two.
C2_Witness ==
    \E c \in contests, u \in Users :
       /\ c.max_submissions_per_user = 2
       /\ Cardinality(RowsOf(submissions, c.contest_id, u)) = 2

\* C3: no two submission rows share (contest_id, user_id, stored URL).
C3_UniqueContestUserUrl ==
    \A r1 \in submissions, r2 \in submissions :
       (/\ r1.contest_id = r2.contest_id
        /\ r1.user_id = r2.user_id
        /\ r1.suno_url = r2.suno_url) => r1 = r2

\* A user holds a row, and a /submit of that user has just been refused by
\* the table's constraints.
C3_Witness ==
    /\ reply.op = "submit"
    /\ reply.kind = "GenericError"
    /\ submissions # {}

\* The stored URL a request of task tk resolves to, whatever the network
\* answers: the embed_url of its handler's metadata.
CanonicalUrls(tk) ==
    {get_metadata(get_platform_handler(tk.url), tk.url, net) : net \in NetAnswers}
        \ {None}

\* C4: a user who holds a committed row with canonical URL U in a contest and
\* submits to it a URL that canonicalizes to U is rejected with
\* DuplicateSubmission, also where the limit is above the user's count and the
\* insert is reached (unless the storage or the network fails the request).
C4_DuplicateReported ==
    [][\A t \in Tasks :
          (/\ SubmitEnds(t)
           /\ tasks[t].pc # "responding"
           /\ OtherwiseValid(tasks[t])
           /\ \E r \in RowsOf(submissions, tasks[t].contest_id, tasks[t].user) :
                 r.suno_url \in CanonicalUrls(tasks[t])
           /\ \E c \in contests :
                 /\ c.contest_id = tasks[t].contest_id
                 /\ c.status \in {"active", "voting"}
                 /\ Cardinality(RowsOf(submissions, tasks[t].contest_id,
                                       tasks[t].user)) < c.max_submissions_per_user
           /\ reply'.kind \notin {"NoAnswer", "RateLimited", "MetadataUnavailable"})
          => reply'.kind = "DuplicateSubmission"]_vars

\* C5: when a /submit has passed every check and its insert, and a post to
\* the review or public channel fails or a channel is not configured, the
\* attempt ends with its row in the store and with success and a warning.
C5_RowSurvivesPostingFailure ==
    [][\A t \in Tasks :
          (/\ SubmitEnds(t)
           /\ \/ tasks[t].pc \in {"posting_review", "posting_public", "reacting"}
              \/ reply'.kind = "ChannelsMissing")
          => /\ RowsOf(submissions', tasks[t].contest_id, tasks[t].user) # {}
             /\ reply'.kind = "AcceptedWithWarning"]_vars

\* The rejections of a /submit that C6 names, as the handler answers them (a
\* missing and a closed contest share an answer; a duplicate is answered as a
\* database error).
SubmitRejections ==
    {"InvalidInput", "RateLimited", "ContestNotFoundOrClosed", "UnsupportedPlatform",
     "PlatformNotAllowed", "MetadataUnavailable", "LimitExceeded", "GenericError"}

\* C6: a /submit that is rejected leaves contests, submissions and votes as
\* they were: it ends before its commit, and no step of a /submit other than
\* its commit changes a table.
C6_RejectionLeavesStore ==
    [][\A t \in Tasks :
          /\ (/\ tasks[t].op = "submit" \/ tasks'[t].op = "submit"
              /\ tasks'[t] # tasks[t]
              /\ tasks'[t].pc # "responding")
             => <<contests, submissions, votes>>' = <<contests, submissions, votes>>
          /\ (SubmitEnds(t) /\ reply'.kind \in SubmitRejections)
             => tasks[t].pc \in {"deferred", "fetching"}]_vars

\* A /submit has just been rejected while the store holds a row.
C6_Witness ==
    /\ reply.op = "submit"
    /\ reply.kind \in {"LimitExceeded", "UnsupportedPlatform"}
    /\ submissions # {}

\* C7: a submission row is committed only to a contest that exists and whose
\* status is active or voting.
C7_CommitOnlyToOpenContest ==
    [][\A r \in submissions' \ submissions :
          \E c \in contests :
             /\ c.contest_id = r.contest_id
             /\ c.status \in {"active", "voting"}]_vars

\* A row is committed to a contest in voting.
C7_Witness ==
    \E r \in submissions, c \in contests :
       /\ c.contest_id = r.contest_id
       /\ c.status = "voting"

\* C8: limits and URL uniqueness are per user: a /submit is rejected for the
\* limit only if its own user's rows reach it, and refused by the table's
\* constraints only if its own user holds the URL; and a committed row gets
\* the id after the last one issued, above every id in the table.
C8_PerUserScope ==
    [][/\ \A t \in Tasks :
             SubmitEnds(t) =>
                /\ reply'.kind = "LimitExceeded" =>
                      \E c \in contests :
                         /\ c.contest_id = tasks[t].contest_id
                         /\ Cardinality(RowsOf(submissions, tasks[t].contest_id,
                                               tasks[t].user))
                               >= c.max_submissions_per_user
                /\ reply'.kind = "GenericError" =>
                      \E r \in RowsOf(submissions, tasks[t].contest_id, tasks[t].user) :
                         r.suno_url \in CanonicalUrls(tasks[t])
       /\ \A r \in submissions' \ submissions :
             /\ r.submission_id = sqlite_seq + 1
             /\ \A x \in submissions : x.submission_id < r.submission_id]_vars

\* Two users hold the same URL in a contest with a limit of one, under the
\* ids 1 and 2.
C8_Witness ==
    \E r1 \in submissions, r2 \in submissions, c \in contests :
       /\ r1.user_id # r2.user_id
       /\ r1.contest_id = c.contest_id
       /\ r2.contest_id = c.contest_id
       /\ r1.suno_url = r2.suno_url
       /\ c.max_submissions_per_user = 1
       /\ r1.submission_id = 1
       /\ r2.submission_id = 2

\* C9: a /submit that passes the validators and the rate limit and finds its
\* contest open is rejected with UnsupportedPlatform when no handler matches
\* its URL, and with PlatformNotAllowed when the contest has a non-empty
\* allowed_platforms that does not hold its handler's name.
C9_PlatformOutcome ==
    [][\A t \in Tasks, c \in contests :
          (/\ SubmitEnds(t)
           /\ tasks[t].pc = "deferred"
           /\ is_allowed(submit_calls[tasks[t].user], now, SubmitMaxCalls,
                         SubmitTimeWindow)
           /\ validate_contest_id(tasks[t].contest_id)
           /\ validate_song_name(tasks[t].song_name)
           /\ validate_url(tasks[t].url)
           /\ db_lock = NoLock
           /\ c.contest_id = tasks[t].contest_id
           /\ c.status \in {"active", "voting"})
          => LET handler == get_platform_handler(tasks[t].url) IN
             /\ handler = None => reply'.kind = "UnsupportedPlatform"
             /\ (/\ handler # None
                 /\ c.allowed_platforms \notin {None, <<>>}
                 /\ \A i \in 1..Len(Split(c.allowed_platforms)) :
                       Split(c.allowed_platforms)[i] # Lower(handler))
                => reply'.kind = "PlatformNotAllowed"]_vars

\* C10: a /submit whose contest_id, song_name or url fails the validators is
\* rejected with InvalidInput without the submit rate limiter recording a call.
C10_InvalidInputNotCounted ==
    [][\A t \in Tasks :
          (SubmitEnds(t) /\ reply'.kind = "InvalidInput")
          => submit_calls' = submit_calls]_vars

(***************************************************************************)
(* The rate limiter alone: submit_limiter, called by any user at any time  *)
(***************************************************************************)
\* submit_limiter.is_allowed(u) is called.
LimiterCall(u) ==
    /\ UNCHANGED <<side, audit_log>>
    /\ requests < MaxLimiterCalls
    /\ requests' = requests + 1
    /\ submit_calls' = [submit_calls EXCEPT ![u] =
           calls_after(submit_calls[u], now, SubmitMaxCalls, SubmitTimeWindow)]
    /\ reply' = [task |-> u, op |-> "is_allowed",
                 kind |-> IF is_allowed(submit_calls[u], now, SubmitMaxCalls,
                                        SubmitTimeWindow)
                          THEN "true" ELSE "false",
                 value |-> 0]
    /\ UNCHANGED <<store, db_lock, delete_calls, now, ticks, tasks>>

\* submit_limiter.get_remaining_time(u) is called.
LimiterRemaining(u) ==
    /\ UNCHANGED <<side, audit_log>>
    /\ reply' = [task |-> u, op |-> "get_remaining_time", kind |-> "value",
                 value |-> get_remaining_time(submit_calls[u], now, SubmitTimeWindow)]
    /\ UNCHANGED <<store, db_lock, submit_calls, delete_calls, now, ticks,
                   requests, tasks>>

\* Time passes: a second, or all of a window but its last second.
LimiterTick(d) ==
    /\ UNCHANGED <<side, audit_log>>
    /\ ticks < MaxLimiterTicks
    /\ ticks' = ticks + 1
    /\ now' = now + d
    /\ UNCHANGED <<store, db_lock, submit_calls, delete_calls, requests, tasks, reply>>

LimiterInit ==
    /\ contests = {}
    /\ submissions = {}
    /\ votes = {}
    /\ sqlite_seq = 0
    /\ db_lock = NoLock
    /\ submit_calls = [u \in Users |-> <<>>]
    /\ delete_calls = [u \in Users |-> <<>>]
    /\ now = 0
    /\ ticks = 0
    /\ requests = 0
    /\ tasks = [t \in Tasks |-> IdleTask]
    /\ reply = [task |-> 0, op |-> "idle", kind |-> "none", value |-> 0]
    /\ rate_limits = {}
    /\ db_version = 0
    /\ schema = {}
    /\ process = ServingProcess
    /\ fault = "none"
    /\ audit_log = <<>>
    /\ call = NoCall
    /\ _handler_cache = {}
    /\ backup_dir = {}
    /\ granted = NoGrants

LimiterNext ==
    \/ \E u \in Users : LimiterCall(u)
    \/ \E u \in Users : LimiterRemaining(u)
    \/ \E d \in {1, SubmitTimeWindow - 1} : LimiterTick(d)

LimiterSpec == LimiterInit /\ [][LimiterNext]_vars

\* C11: no database transaction is open while a /submit is suspended on the
\* network: not in the metadata fetch, and not in the posts to the channels.
C11_NoTransactionAcrossIO ==
    \A t \in Tasks :
       (/\ tasks[t].op = "submit"
        /\ tasks[t].pc \in {"fetching", "posting_review", "posting_public", "reacting"})
       => db_lock.holder # t

\* This step is a call submit_limiter.is_allowed(u).
IsAllowedCalled(u) ==
    /\ requests' = requests + 1
    /\ reply'.op = "is_allowed"
    /\ reply'.task = u

\* How many of the calls the limiter holds of u are younger than the window.
YoungCalls(u) ==
    Cardinality({i \in 1..Len(submit_calls[u]) :
                    now - submit_calls[u][i] < SubmitTimeWindow})

\* C12: with max_calls = 5 and time_window = 60, a call of a user with fewer
\* than 5 calls allowed within the last 60 seconds returns true, a call with
\* 5 of them returns false, and a call made once 60 seconds have passed since
\* all of them returns true again.
C12_FiveInWindowThenDenied ==
    [][\A u \in Users :
          IsAllowedCalled(u) =>
             /\ YoungCalls(u) < 5 => reply'.kind = "true"
             /\ YoungCalls(u) >= 5 => reply'.kind = "false"
             /\ (\A i \in 1..Len(submit_calls[u]) : now - submit_calls[u][i] >= 60)
                   => reply'.kind = "true"]_vars

\* User 1 made seven calls: six at time 0, or five and one later within the
\* window, of which one was denied, and one at time 60, which was allowed.
C12_Witness ==
    /\ requests = 7
    /\ reply = [task |-> 1, op |-> "is_allowed", kind |-> "true", value |-> 0]
    /\ submit_calls[1] = <<60>>
    /\ \A u \in Users \ {1} : submit_calls[u] = <<>>

\* C13: is_allowed(u) discards the timestamps of u that are time_window or
\* more old, and records the current time exactly when it returns true, which
\* it does iff fewer than max_calls timestamps remain; a call that returns
\* false records nothing, and no other user's timestamps change.
C13_PurgeThenRecordIfAllowed ==
    [][\A u \in Users :
          IsAllowedCalled(u) =>
             LET kept == SelectSeq(submit_calls[u],
                                   LAMBDA c : now - c < SubmitTimeWindow)
             IN /\ reply'.kind = "true" <=> Len(kept) < SubmitMaxCalls
                /\ reply'.kind = "true" => submit_calls'[u] = Append(kept, now)
                /\ reply'.kind = "false" => submit_calls'[u] = kept
                /\ \A v \in Users \ {u} : submit_calls'[v] = submit_calls[v]]_vars

\* A call has just been denied in the last second of a full window, and the
\* limiter holds the five calls it held before.
C13_Witness ==
    /\ reply.op = "is_allowed"
    /\ reply.kind = "false"
    /\ now = SubmitTimeWindow - 1
    /\ submit_calls[reply.task] = <<0, 0, 0, 0, 0>>

\* C14: get_remaining_time(u) returns the oldest held timestamp of u plus
\* time_window minus now, or 0 if that is negative or u has no calls; it
\* leaves the limiter as it was; and after it returned 0, is_allowed(u)
\* returns true.
C14_RemainingTime ==
    [][\A u \in Users :
          /\ (reply'.op = "get_remaining_time" /\ reply'.task = u /\ reply' # reply)
             => /\ submit_calls' = submit_calls
                /\ \/ submit_calls[u] = <<>> /\ reply'.value = 0
                   \/ \E i \in 1..Len(submit_calls[u]) :
                         /\ \A j \in 1..Len(submit_calls[u]) :
                               submit_calls[u][i] <= submit_calls[u][j]
                         /\ LET left == submit_calls[u][i] + SubmitTimeWindow - now
                            IN reply'.value = IF left < 0 THEN 0 ELSE left
          /\ (/\ reply.op = "get_remaining_time"
              /\ reply.task = u
              /\ reply.value = 0
              /\ IsAllowedCalled(u))
             => reply'.kind = "true"]_vars

\* get_remaining_time has returned 0 for a user whose calls have all expired
\* and are still held.
C14_Witness ==
    /\ reply.op = "get_remaining_time"
    /\ reply.value = 0
    /\ submit_calls[reply.task] # <<>>


(***************************************************************************)
(* database.py: check_rate_limit, the rate limit kept in the database      *)
(***************************************************************************)
MaxRateLimitChecks == 4
MaxRateLimitTicks == 3
\* check_rate_limit has no caller in the repository: the limit and the
\* window (in minutes) its callers would pass.
RateLimitLimit == 2
RateLimitWindowMinutes == 1

\* Where the storage may fail one call: opening the connection, one of the
\* three statements, or the commit when get_db leaves its block.
RateLimitFaults == {"none", "connect", "purge", "select", "upsert", "commit"}

\* DELETE FROM rate_limits WHERE window_start < ?
PurgedRateLimits(rows, window_start) ==
    {r \in rows : ~(r.window_start < window_start)}

\* SELECT count FROM rate_limits WHERE user_id = ? AND action = ? AND
\* window_start > ? finds a row whose count has reached the limit.
RateLimitReached(rows, user_id, action, limit, window_start) ==
    \E r \in PurgedRateLimits(rows, window_start) :
       /\ r.user_id = user_id
       /\ r.action = action
       /\ r.window_start > window_start
       /\ r.count >= limit

\* INSERT ... VALUES (?, ?, 1, ?) ON CONFLICT(user_id, action) DO UPDATE SET
\* count = count + 1
UpsertRateLimit(rows, user_id, action, t) ==
    IF \E r \in rows : r.user_id = user_id /\ r.action = action
    THEN {IF r.user_id = user_id /\ r.action = action
          THEN [r EXCEPT !.count = r.count + 1] ELSE r : r \in rows}
    ELSE rows \cup {[user_id |-> user_id, action |-> action, count |-> 1,
                     window_start |-> t]}

\* The fault that strikes the call: the upsert is not reached, and so cannot
\* fail, when the limit is reached.
RateLimitFault(rows, user_id, action, limit, window_start, fault_at) ==
    IF fault_at = "upsert" /\ RateLimitReached(rows, user_id, action, limit, window_start)
    THEN "none" ELSE fault_at

\* A storage error answered with a refusal.
check_rate_limit_FailClosed(rows, user_id, action, limit, window_minutes, t, fault_at) ==
    LET window_start == t - window_minutes * 60
        struck == RateLimitFault(rows, user_id, action, limit, window_start, fault_at)
    IN IF struck # "none"
       THEN [kind |-> "false", rows |-> rows]
       ELSE IF RateLimitReached(rows, user_id, action, limit, window_start)
       THEN [kind |-> "false", rows |-> PurgedRateLimits(rows, window_start)]
       ELSE [kind |-> "true",
             rows |-> UpsertRateLimit(PurgedRateLimits(rows, window_start),
                                      user_id, action, t)]

\* check_rate_limit: what it returns and the rows it leaves.  An error of the
\* storage rolls the transaction back in get_db and is caught by `except
\* Exception`, which returns True; so is an error of the commit that follows
\* `return False`.
check_rate_limit(rows, user_id, action, limit, window_minutes, t, fault_at) ==
    LET window_start == t - window_minutes * 60
        struck == RateLimitFault(rows, user_id, action, limit, window_start, fault_at)
    IN IF struck # "none"
       THEN [kind |-> "true", rows |-> rows]
       ELSE IF RateLimitReached(rows, user_id, action, limit, window_start)
       THEN [kind |-> "false", rows |-> PurgedRateLimits(rows, window_start)]
       ELSE [kind |-> "true",
             rows |-> UpsertRateLimit(PurgedRateLimits(rows, window_start),
                                      user_id, action, t)]

\* One call of check_rate_limit(u, "submit", limit, window).
CheckRateLimit(u, fault_at) ==
    /\ requests < MaxRateLimitChecks
    /\ requests' = requests + 1
    /\ LET result == check_rate_limit(rate_limits, u, "submit", RateLimitLimit,
                                      RateLimitWindowMinutes, now, fault_at)
       IN /\ rate_limits' = result.rows
          /\ reply' = [task |-> 0, op |-> "check_rate_limit", kind |-> result.kind,
                       value |-> u]
    /\ fault' = RateLimitFault(rate_limits, u, "submit", RateLimitLimit,
                               now - RateLimitWindowMinutes * 60, fault_at)
    /\ UNCHANGED <<store, db_lock, submit_calls, delete_calls, now, ticks, tasks,
                   db_version, schema, process,
                   call, _handler_cache, backup_dir, granted,
                   audit_log>>

\* Time passes between two calls: a second, or all but a second of a window.
RateLimitTick(d) ==
    /\ ticks < MaxRateLimitTicks
    /\ ticks' = ticks + 1
    /\ now' = now + d
    /\ UNCHANGED <<store, db_lock, submit_calls, delete_calls, requests, tasks,
                   reply, side, audit_log>>

RateLimitNext ==
    \/ \E u \in Users, f \in RateLimitFaults : CheckRateLimit(u, f)
    \/ \E d \in {1, RateLimitWindowMinutes * 60 - 1} : RateLimitTick(d)

RateLimitSpec == Init /\ [][RateLimitNext]_vars

\* C15: check_rate_limit fails open: a call the storage fails, whether in
\* the purge, the read, the update, the connection or the commit, returns
\* true, and no call ends in anything but true or false.
C15_FailsOpen ==
    [][requests' = requests + 1
          => /\ reply'.kind \in {"true", "false"}
             /\ fault' # "none" => reply'.kind = "true" /\ rate_limits' = rate_limits]_vars

\* The read failed for a user whose limit was reached, and the call
\* returned true.
C15_Witness ==
    /\ reply.op = "check_rate_limit"
    /\ reply.kind = "true"
    /\ fault = "select"
    /\ \E r \in rate_limits :
          /\ r.user_id = reply.value
          /\ r.count >= RateLimitLimit
          /\ r.window_start > now - RateLimitWindowMinutes * 60

(***************************************************************************)
(* database.py: migrate_db, verify_integrity; run.py and main.py: startup  *)
(***************************************************************************)
CURRENT_VERSION == 3
MaxCommands == 2

\* migrations: how many statements each step holds.
MigrationLengths == <<2, 2, 3>>

\* The statements of step k, each named by its step and its place in it.
MigrationStatements(k) == {<<k, i>> : i \in 1..MigrationLengths[k]}

\* The statements of steps 1..v: what a database file at version v holds.
AppliedThrough(v) == UNION {MigrationStatements(k) : k \in 1..v}

\* What SQLite answers statement i of step k.  The statements of step 1 are
\* `ALTER TABLE ... ADD COLUMN IF NOT EXISTS ...`, which SQLite does not
\* parse; those of steps 2 and 3 are CREATE TABLE / CREATE INDEX IF NOT
\* EXISTS, which succeed unless the storage fails them (fail_at).
StatementResult(k, i, fail_at) ==
    IF k = 1 THEN "syntax error"
    ELSE IF fail_at = i THEN "disk I/O error"
    ELSE "ok"

\* Where the storage may fail step k: nowhere, at BEGIN EXCLUSIVE (another
\* process holds the file), or at one of its statements.
FailPoints(k) == {0, -1} \cup (IF k = 1 THEN {} ELSE 1..MigrationLengths[k])

\* The error that ends step k, "none" if it commits: that of BEGIN
\* EXCLUSIVE, else that of the first statement whose error is not a
\* "duplicate column" (lines 192-199).
StepFault(k, fail_at) ==
    IF fail_at = -1 THEN "database is locked"
    ELSE LET failing == {i \in 1..MigrationLengths[k] :
                            StatementResult(k, i, fail_at) \notin {"ok", "duplicate column"}}
         IN IF failing = {} THEN "none"
            ELSE StatementResult(k, Min(failing), fail_at)

\* The version written although the step failed.
migrate_step_VersionOutsideTransaction(applied, version, target_version, fail_at) ==
    LET k == target_version + 1
    IN IF StepFault(k, fail_at) # "none"
       THEN [schema |-> applied, version |-> k, raised |-> TRUE]
       ELSE [schema |-> applied \cup MigrationStatements(k), version |-> k,
             raised |-> FALSE]

\* The failed step left as far as it got, without the ROLLBACK.
migrate_step_NoRollback(applied, version, target_version, fail_at) ==
    LET k == target_version + 1
        failing == {i \in 1..MigrationLengths[k] :
                       StatementResult(k, i, fail_at) \notin {"ok", "duplicate column"}}
    IN IF fail_at = -1
       THEN [schema |-> applied, version |-> version, raised |-> TRUE]
       ELSE IF failing # {}
       THEN [schema |-> applied \cup {<<k, i>> : i \in 1..(Min(failing) - 1)},
             version |-> version, raised |-> TRUE]
       ELSE [schema |-> applied \cup MigrationStatements(k), version |-> k,
             raised |-> FALSE]

\* One pass of the loop of migrate_db (lines 186-210): BEGIN EXCLUSIVE, the
\* statements of step target_version + 1, set_db_version and COMMIT; or, on
\* an error, ROLLBACK (which takes the statements and the version back, or
\* itself raises when BEGIN EXCLUSIVE had failed) and the error raised.
migrate_step(applied, version, target_version, fail_at) ==
    LET k == target_version + 1
    IN IF StepFault(k, fail_at) # "none"
       THEN [schema |-> applied, version |-> version, raised |-> TRUE]
       ELSE [schema |-> applied \cup MigrationStatements(k), version |-> k,
             raised |-> FALSE]

\* The process as its entry point starts it: run.py runs initialize_database
\* before the bot, main.py leaves the database to on_ready.
StartingProcess(entry) ==
    [entry |-> entry, stage |-> IF entry = "run.py" THEN "script" ELSE "on_ready",
     phase |-> "init_db", current_version |-> 0, target_version |-> 0,
     failure |-> "none"]

\* init_db, migrate_db or verify_integrity has failed the stage.  run.py:
\* initialize_database returns False and main calls sys.exit(1) (lines
\* 106-116, 141-143).  on_ready: the error is logged, the background task is
\* started and the bot listens for commands (main.py lines 96-103).
StageFailed ==
    process' = [process EXCEPT
                   !.failure = CASE process.phase = "init_db" -> "init_db"
                                 [] process.phase = "migrate_raised" -> "migrate_db"
                                 [] OTHER -> "verify_integrity",
                   !.phase = "none",
                   !.stage = IF process.stage = "script" THEN "halted" ELSE "serving"]

\* init_db, migrate_db and verify_integrity have passed.  run.py: main goes
\* on to bot.run, which calls on_ready once connected (lines 145-159).
\* on_ready: the bot listens for commands.
StagePassed ==
    process' = IF process.stage = "script"
               THEN [process EXCEPT !.stage = "on_ready", !.phase = "init_db"]
               ELSE [process EXCEPT !.stage = "serving", !.phase = "none"]

\* init_db (database.py lines 40-127): CREATE TABLE / INDEX IF NOT EXISTS
\* for the base schema; it returns, or the storage fails it and it raises.
InitDb(ok) ==
    /\ process.phase = "init_db"
    /\ IF ok THEN process' = [process EXCEPT !.phase = "migrate"] ELSE StageFailed
    /\ fault' = IF ok THEN "none" ELSE "disk I/O error"
    /\ UNCHANGED <<store, db_lock, submit_calls, delete_calls, now, ticks, requests,
                   tasks, reply, rate_limits, db_version, schema,
                   call, _handler_cache, backup_dir, granted,
                   audit_log>>

\* migrate_db, lines 131-136 and the range of line 186: the stored version
\* is read; at CURRENT_VERSION or above it returns without a statement.
MigrateBegin ==
    /\ process.phase = "migrate"
    /\ process' = [process EXCEPT
                      !.current_version = db_version,
                      !.target_version = db_version,
                      !.phase = IF db_version >= CURRENT_VERSION
                                THEN "verify" ELSE "migrating"]
    /\ fault' = "none"
    /\ UNCHANGED <<store, db_lock, submit_calls, delete_calls, now, ticks, requests,
                   tasks, reply, rate_limits, db_version, schema,
                   call, _handler_cache, backup_dir, granted,
                   audit_log>>

\* migrate_db, one pass of the loop: the step commits and the loop goes on
\* (or ends after the last step), or the step raises out of migrate_db.
MigrateStep(fail_at) ==
    /\ process.phase = "migrating"
    /\ fail_at \in FailPoints(process.target_version + 1)
    /\ LET result == migrate_step(schema, db_version, process.target_version, fail_at)
           next_target == process.target_version + 1
       IN /\ schema' = result.schema
          /\ db_version' = result.version
          /\ process' =
                IF result.raised
                THEN [process EXCEPT !.phase = "migrate_raised"]
                ELSE [process EXCEPT
                         !.target_version = next_target,
                         !.phase = IF next_target >= Min({Len(MigrationLengths),
                                                          CURRENT_VERSION})
                                   THEN "verify" ELSE "migrating"]
    /\ fault' = StepFault(process.target_version + 1, fail_at)
    /\ UNCHANGED <<store, db_lock, submit_calls, delete_calls, now, ticks, requests,
                   tasks, reply, rate_limits,
                   call, _handler_cache, backup_dir, granted,
                   audit_log>>

\* The error of migrate_db reaches its caller's `except Exception` (run.py
\* line 114, main.py line 98).
MigrateRaised ==
    /\ process.phase = "migrate_raised"
    /\ StageFailed
    /\ UNCHANGED <<store, db_lock, submit_calls, delete_calls, now, ticks, requests,
                   tasks, reply, rate_limits, db_version, schema, fault,
                   call, _handler_cache, backup_dir, granted,
                   audit_log>>

\* verify_integrity (database.py lines 212-245) returns True, or False for a
\* violation, a missing table or an error of its own; its caller goes on
\* accordingly (run.py lines 106-111, main.py lines 94-97).
VerifyIntegrity(ok) ==
    /\ process.phase = "verify"
    /\ IF ok THEN StagePassed ELSE StageFailed
    /\ UNCHANGED <<store, db_lock, submit_calls, delete_calls, now, ticks, requests,
                   tasks, reply, rate_limits, db_version, schema, fault,
                   call, _handler_cache, backup_dir, granted,
                   audit_log>>

\* The bot listens for commands (main.py line 103) and one is invoked.
AcceptCommand ==
    /\ process.stage = "serving"
    /\ requests < MaxCommands
    /\ requests' = requests + 1
    /\ UNCHANGED <<store, db_lock, submit_calls, delete_calls, now, ticks, tasks,
                   reply, side, audit_log>>

\* The process starts, by either entry point, on the database file it
\* finds: a fresh one (version 0), or one that a deployment left at version
\* 1, 2 or 3 with the statements of those steps applied.
StartupInit ==
    /\ contests = {}
    /\ submissions = {}
    /\ votes = {}
    /\ sqlite_seq = 0
    /\ db_lock = NoLock
    /\ submit_calls = [u \in Users |-> <<>>]
    /\ delete_calls = [u \in Users |-> <<>>]
    /\ now = 0
    /\ ticks = 0
    /\ requests = 0
    /\ tasks = [t \in Tasks |-> IdleTask]
    /\ reply = [task |-> 0, op |-> "idle", kind |-> "none", value |-> 0]
    /\ rate_limits = {}
    /\ db_version \in 0..CURRENT_VERSION
    /\ schema = AppliedThrough(db_version)
    /\ process \in {StartingProcess(entry) : entry \in {"run.py", "main.py"}}
    /\ fault = "none"
    /\ audit_log = <<>>
    /\ call = NoCall
    /\ _handler_cache = {}
    /\ backup_dir = {}
    /\ granted = NoGrants

StartupNext ==
    \/ \E ok \in BOOLEAN : InitDb(ok)
    \/ MigrateBegin
    \/ \E fail_at \in -1..Max({MigrationLengths[k] : k \in DOMAIN MigrationLengths}) :
          MigrateStep(fail_at)
    \/ MigrateRaised
    \/ \E ok \in BOOLEAN : VerifyIntegrity(ok)
    \/ AcceptCommand

StartupSpec == StartupInit /\ [][StartupNext]_vars

\* C16: a database at version V holds every statement of steps 1..V; the
\* version moves only by one, together with exactly the statements of the
\* step it moves to, and no statement stays without its step's version.
C16_VersionMatchesAppliedSteps ==
    /\ [](\A k \in 1..db_version : \A i \in 1..MigrationLengths[k] : <<k, i>> \in schema)
    /\ [][/\ db_version' # db_version
             => /\ db_version' = db_version + 1
                /\ schema' = schema \cup {<<db_version + 1, i>> :
                                            i \in 1..MigrationLengths[db_version + 1]}
          /\ schema' # schema => db_version' # db_version]_vars

\* The last step has committed in a run of migrate_db that began below it.
C16_Witness ==
    /\ process.current_version < CURRENT_VERSION
    /\ process.phase = "verify"
    /\ db_version = CURRENT_VERSION
    /\ \A i \in 1..MigrationLengths[CURRENT_VERSION] : <<CURRENT_VERSION, i>> \in schema

\* C17: when BEGIN EXCLUSIVE or a statement of step k fails (with anything
\* but a duplicate-column error), the step leaves none of its statements
\* and the version at k - 1, migrate_db raises to its caller, and nothing
\* of a later step is applied afterwards.
C17_FailedStepLeavesNothing ==
    [][/\ (process.phase = "migrating" /\ process' # process /\ fault' # "none")
          => /\ schema' = schema
             /\ db_version' = process.target_version
             /\ \A i \in 1..MigrationLengths[process.target_version + 1] :
                   <<process.target_version + 1, i>> \notin schema'
             /\ process'.phase = "migrate_raised"
       /\ process.phase = "migrate_raised"
          => schema' = schema /\ db_version' = db_version]_vars

\* The second statement of step 3 failed after step 2 had committed in the
\* same run: the database stays at version 2 and migrate_db has raised.
C17_Witness ==
    /\ process.phase = "migrate_raised"
    /\ fault = "disk I/O error"
    /\ process.current_version = 1
    /\ process.target_version = 2
    /\ db_version = 2
    /\ schema = {<<k, i>> \in (1..2) \X (1..2) : TRUE}

\* C18: migrate_db on a fresh database (version 0) ends with the database
\* at CURRENT_VERSION: it raises only if the storage fails it, and it
\* returns only with every step applied.
C18_FreshStoreReachesLatest ==
    process.current_version = 0
    => /\ process.phase = "migrate_raised"
          => fault \in {"disk I/O error", "database is locked"}
       /\ process.phase = "verify"
          => db_version = CURRENT_VERSION /\ schema = {<<k, i>> \in (1..3) \X (1..3) :
                                                          i <= MigrationLengths[k]}

\* C19: a process whose startup has seen migrate_db raise or
\* verify_integrity return false does not come to listen for commands and
\* accepts none, by whichever entry point it started.
C19_FailedStartupNeverServes ==
    process.failure \in {"migrate_db", "verify_integrity"}
    => process.stage # "serving" /\ requests = 0

(***************************************************************************)
(* main.py: delete_contest; database.py: get_contest_stats                 *)
(***************************************************************************)
\* Only the contest row removed: its submissions and their votes stay.
DeleteContestRows_ContestOnly(contest_id) ==
    [contests |-> {c \in contests : c.contest_id # contest_id},
     submissions |-> submissions,
     votes |-> votes]

\* DELETE FROM submissions WHERE contest_id = ? (the votes on those rows go
\* with them: ON DELETE CASCADE under PRAGMA foreign_keys = ON) and DELETE
\* FROM contests WHERE contest_id = ? (lines 341-342).
DeleteContestRows(contest_id) ==
    [contests |-> {c \in contests : c.contest_id # contest_id},
     submissions |-> {r \in submissions : r.contest_id # contest_id},
     votes |-> {v \in votes :
                  \A r \in submissions :
                     r.contest_id = contest_id => v.submission_id # r.submission_id}]

\* /contest delete, lines 304-336: the contest is looked up and its
\* submissions are counted, up to the suspension in the confirmation view.
DeleteContestRequest(t, u, contest_id) ==
    /\ Free(t)
    /\ IF ReadBlocked(t)
       THEN /\ reply' = [task |-> t, op |-> "delete_contest", kind |-> "GenericError",
                         value |-> 0]
            /\ UNCHANGED tasks
       ELSE IF ~\E c \in contests : c.contest_id = contest_id
       THEN /\ reply' = [task |-> t, op |-> "delete_contest", kind |-> "ContestNotFound",
                         value |-> 0]
            /\ UNCHANGED tasks
       ELSE /\ tasks' = [tasks EXCEPT ![t] =
                            [IdleTask EXCEPT
                                !.op = "delete_contest", !.pc = "confirming",
                                !.user = u, !.contest_id = contest_id,
                                !.submission_count =
                                    Cardinality({r \in submissions :
                                                    r.contest_id = contest_id})]]
            /\ UNCHANGED reply
    /\ UNCHANGED <<store, db_lock, submit_calls, delete_calls, now, ticks, requests,
                   side, audit_log>>

\* The confirmation view returns (line 336).  Unless the manager confirmed,
\* the deletion is cancelled.  Else both DELETEs run and get_db commits them
\* before the handler suspends in ctx.edit() (lines 339-349); log_action,
\* called inside the block on a connection of its own, finds the database
\* locked and only logs that.  A DELETE that finds the database locked
\* raises, and the handler answers with the error.
DeleteContestConfirmed(t, value) ==
    /\ tasks[t].op = "delete_contest"
    /\ tasks[t].pc = "confirming"
    /\ IF ~value
       THEN Finish(t, "Cancelled") /\ UNCHANGED <<store, audit_log>>
       ELSE IF WriteBlocked(t)
       THEN Finish(t, "GenericError") /\ UNCHANGED <<store, audit_log>>
       ELSE /\ contests' = DeleteContestRows(tasks[t].contest_id).contests
            /\ submissions' = DeleteContestRows(tasks[t].contest_id).submissions
            /\ votes' = DeleteContestRows(tasks[t].contest_id).votes
            /\ audit_log' = log_action(audit_log, tasks[t].user, "delete_contest",
                                        [holder |-> t, kind |-> "reserved"])
            /\ tasks' = [tasks EXCEPT ![t].pc = "responding"]
            /\ UNCHANGED <<sqlite_seq, reply>>
    /\ UNCHANGED <<db_lock, submit_calls, delete_calls, now, ticks, requests, side>>

\* ctx.edit() returns (line 349), or raises and the handler answers with
\* the error (line 357); the rows are gone either way.
DeleteContestResponded(t, sent) ==
    /\ tasks[t].op = "delete_contest"
    /\ tasks[t].pc = "responding"
    /\ tasks' = [tasks EXCEPT ![t] = IdleTask]
    /\ reply' = [task |-> t, op |-> "delete_contest",
                 kind |-> IF sent THEN "ContestDeleted" ELSE "GenericError",
                 value |-> tasks[t].submission_count]
    /\ UNCHANGED <<store, db_lock, submit_calls, delete_calls, now, ticks, requests,
                   side, audit_log>>

\* get_contest_stats(contest_id): None when the contest row is not found or
\* the storage raises (lines 297-306, 383-385), else the statistics, of
\* which the answer keeps total_submissions.
GetContestStats(contest_id) ==
    /\ reply' =
          IF ReadBlocked(0) \/ ~\E c \in contests : c.contest_id = contest_id
          THEN [task |-> 0, op |-> "contest_stats", kind |-> "ContestNotFound",
                value |-> 0]
          ELSE [task |-> 0, op |-> "contest_stats", kind |-> "Stats",
                value |-> Cardinality({r \in submissions : r.contest_id = contest_id})]
    /\ UNCHANGED <<store, db_lock, submit_calls, delete_calls, now, ticks, requests,
                   tasks, side, audit_log>>

\* Submissions arrive, contests are deleted and statistics are asked for.
ContestNext ==
    \/ \E t \in Tasks, u \in Users, in \in {i \in SubmitInputs :
                                              /\ i.contest_id = CID_A
                                              /\ i.song_name = SONG_OK
                                              /\ i.url \in {URL_YT, URL_SPOTIFY}} :
          SubmitRequest(t, u, in)
    \/ \E t \in Tasks : SubmitAdmit(t)
    \/ \E t \in Tasks, net \in NetAnswers : SubmitFetched(t, net)
    \/ \E t \in Tasks, o \in PostOutcomes : SubmitReviewPosted(t, o)
    \/ \E t \in Tasks, o \in PostOutcomes : SubmitPublicPosted(t, o)
    \/ \E t \in Tasks, o \in PostOutcomes : SubmitReacted(t, o)
    \/ \E t \in Tasks, sent \in BOOLEAN : SubmitResponded(t, sent)
    \/ \E t \in Tasks, u \in Managers, cid \in {CID_A, CID_BAD} :
          DeleteContestRequest(t, u, cid)
    \/ \E t \in Tasks, v \in BOOLEAN : DeleteContestConfirmed(t, v)
    \/ \E t \in Tasks, sent \in BOOLEAN : DeleteContestResponded(t, sent)
    \/ \E cid \in {CID_A, CID_BAD} : GetContestStats(cid)

ContestSpec == Init /\ [][ContestNext]_vars

C21_DeleteOnlyOwnerOrPrivileged ==
    [][/\ (\E r \in submissions : r \notin submissions')
          => \E t \in Tasks :
                /\ tasks[t].op = "delete"
                /\ tasks[t].pc = "responding"
                /\ tasks[t].row.user_id = tasks[t].user \/ tasks[t].privileged
                /\ submissions' = {r \in submissions :
                                      r.submission_id # tasks[t].row.submission_id}
       /\ \A t \in Tasks, u \in Users, sid \in 1..(sqlite_seq + 1), p \in BOOLEAN :
             DeleteRequest(t, u, sid, p)
             => LET rows == {r \in submissions : r.submission_id = sid}
                IN /\ store' = store
                   /\ rows = {}
                      => /\ tasks' = tasks
                         /\ reply'.kind \in {"SubmissionNotFound", "RateLimited",
                                             "GenericError"}
                   /\ (rows # {} /\ ~p /\ \A r \in rows : r.user_id # u)
                      => /\ tasks' = tasks
                         /\ reply'.kind \in {"NotAuthorized", "RateLimited",
                                             "GenericError"}]_vars

\* A request for the row of another user was answered NotAuthorized, and the
\* row is still there.
C21_Witness ==
    /\ reply.op = "delete"
    /\ reply.kind = "NotAuthorized"
    /\ submissions # {}
    /\ \A t \in Tasks : tasks[t].op = "idle"

\* A submission arrives and is deleted, with every outcome of the cleanup
\* of its posted messages.
DeletionNext ==
    \/ \E t \in Tasks, u \in Users, in \in {i \in SubmitInputs :
                                              /\ i.contest_id = CID_A
                                              /\ i.song_name = SONG_OK
                                              /\ i.url = URL_SPOTIFY} :
          SubmitRequest(t, u, in)
    \/ \E t \in Tasks : SubmitAdmit(t)
    \/ \E t \in Tasks, o \in PostOutcomes : SubmitReviewPosted(t, o)
    \/ \E t \in Tasks, o \in PostOutcomes : SubmitPublicPosted(t, o)
    \/ \E t \in Tasks, o \in PostOutcomes : SubmitReacted(t, o)
    \/ \E t \in Tasks, sent \in BOOLEAN : SubmitResponded(t, sent)
    \/ \E t \in Tasks, u \in Users, sid \in 1..(sqlite_seq + 1), p \in BOOLEAN :
          DeleteRequest(t, u, sid, p)
    \/ \E t \in Tasks, v \in BOOLEAN, po \in MessageOutcomes, ro \in MessageOutcomes :
          DeleteConfirmed(t, v, po, ro)
    \/ \E t \in Tasks, sent \in BOOLEAN : DeleteResponded(t, sent)

DeletionSpec == Init /\ [][DeletionNext]_vars

\* C22: a confirmed /submission delete goes on to its DELETE whatever
\* became of the posted messages (only a locked database stops it), and once
\* its answer is sent the row is gone and the answer is the success, carrying
\* one warning for each message that was refused or failed and none for a
\* message deleted or already gone.
C22_CleanupNeverBlocksDeletion ==
    [][/\ \A t \in Tasks, po \in MessageOutcomes, ro \in MessageOutcomes :
             (DeleteConfirmed(t, TRUE, po, ro) /\ db_lock.kind = "none")
             => /\ tasks'[t].pc = "responding"
                /\ db_lock'.holder = t
                /\ Len(tasks'[t].deletion_errors) =
                      Cardinality({o \in {<<1, po>>, <<2, ro>>} :
                                      o[2] \in {"Forbidden", "HTTPException"}})
       /\ \A t \in Tasks :
             (/\ tasks[t].op = "delete"
              /\ tasks[t].pc = "responding"
              /\ tasks'[t].op = "idle"
              /\ reply'.kind # "GenericError")
             => /\ reply'.kind = "Deleted"
                /\ reply'.value = Len(tasks[t].deletion_errors)
                /\ \A r \in submissions' :
                      r.submission_id # tasks[t].row.submission_id]_vars

\* The deletion of both posted messages failed; the row was deleted all the
\* same and the answer carries the two warnings.
C22_Witness ==
    /\ reply.op = "delete"
    /\ reply.kind = "Deleted"
    /\ reply.value = 2
    /\ submissions = {}
    /\ sqlite_seq = 1

(***************************************************************************)
(* database.py: log_action, the audit log of the mutating commands         *)
(***************************************************************************)
\* The action each command passes to log_action (main.py lines 181, 261,
\* 344, 605, 770).
AuditAction(op) ==
    CASE op = "create" -> "create_contest"
      [] op = "edit" -> "edit_contest"
      [] op = "delete_contest" -> "delete_contest"
      [] op = "submit" -> "submit"
      [] op = "delete" -> "delete_submission"
      [] OTHER -> "none"

\* The answers that report the success of a mutating command.
SuccessAnswers ==
    {"ContestCreated", "ContestUpdated", "ContestDeleted", "Accepted", "Deleted"}

\* C23: when a mutating command finishes with its success answer, the audit
\* log holds an entry with the acting user and the command's action; and
\* the audit log only ever grows at its end.
C23_SuccessIsAudited ==
    [][/\ \A t \in Tasks :
             (/\ tasks[t].op \in {"create", "delete_contest", "submit", "delete"}
              /\ tasks'[t].op = "idle"
              /\ reply'.kind \in SuccessAnswers)
             => \E i \in 1..Len(audit_log') :
                   audit_log'[i] = [user_id |-> tasks[t].user,
                                    action |-> AuditAction(tasks[t].op)]
       /\ Len(audit_log') >= Len(audit_log)
       /\ \A i \in 1..Len(audit_log) : audit_log'[i] = audit_log[i]]_vars

(***************************************************************************)
(* main.py: create_contest, edit_contest, delete_contest together          *)
(***************************************************************************)
CID_B == <<"w","2","6">>

\* What a contest manager may create here: the inputs of CreateInputs, and
\* a second contest id on the channel pair of the first or on one of its own.
AdminCreateInputs ==
    CreateInputs \cup
    {[contest_id |-> CID_B, public_channel |-> 1, review_channel |-> 2,
      allowed_platforms |-> None, submission_limit |-> 1],
     [contest_id |-> CID_B, public_channel |-> 3, review_channel |-> 4,
      allowed_platforms |-> None, submission_limit |-> 1]}

\* What a contest manager may edit here: the inputs of EditInputs, and new
\* channels for either contest.
AdminEditInputs ==
    EditInputs \cup
    {[contest_id |-> CID_B, public_channel |-> 1, review_channel |-> 2,
      submission_limit |-> 0, status |-> ""],
     [contest_id |-> CID_A, public_channel |-> 3, review_channel |-> 0,
      submission_limit |-> 0, status |-> "voting"],
     [contest_id |-> CID_B, public_channel |-> 0, review_channel |-> 0,
      submission_limit |-> 2, status |-> ""]}

\* Contests are created, edited and deleted.
AdminNext ==
    \/ \E t \in Tasks, u \in Managers, in \in AdminCreateInputs : CreateRequest(t, u, in)
    \/ \E t \in Tasks : CreateInsert(t)
    \/ \E t \in Tasks, sent \in BOOLEAN : CreateResponded(t, sent)
    \/ \E t \in Tasks, u \in Managers, in \in AdminEditInputs : EditContest(t, u, in)
    \/ \E t \in Tasks, u \in Managers, cid \in {CID_A, CID_B} :
          DeleteContestRequest(t, u, cid)
    \/ \E t \in Tasks, v \in BOOLEAN : DeleteContestConfirmed(t, v)
    \/ \E t \in Tasks, sent \in BOOLEAN : DeleteContestResponded(t, sent)

AdminSpec == Init /\ [][AdminNext]_vars

\* C24: /contest edit of an existing contest, with a field given, the
\* database free and the new channel pair free, answers ContestUpdated and
\* leaves the contests as the UPDATE makes them: the fields given set, every
\* other field and every other contest as before; for a contest id that no
\* contest has it answers ContestNotFound and changes nothing.
C24_EditPersistsSuppliedFields ==
    [][\A t \in Tasks, u \in Managers, in \in AdminEditInputs :
          (/\ EditContest(t, u, in)
           /\ db_lock.kind = "none"
           /\ ~(/\ in.public_channel = 0
                /\ in.review_channel = 0
                /\ in.submission_limit = 0
                /\ in.status = ""))
          => IF \E c \in contests : c.contest_id = in.contest_id
             THEN EditConstraintsHold(in)
                  => /\ reply'.kind = "ContestUpdated"
                     /\ contests' = UpdatedContests(in)
             ELSE /\ reply'.kind = "ContestNotFound"
                  /\ contests' = contests]_vars

\* C25: /contest create answers InvalidContestId for an id that
\* validate_contest_id refuses, else InvalidPlatformList for a list with an
\* unregistered platform, else (the database free) DuplicateContestId
\* exactly when a contest has the id; every answer but the success leaves
\* the store as it was, and the success adds one contest, active, with the
\* limit given.
C25_CreateOutcomes ==
    [][\A t \in Tasks :
          (tasks[t].op = "create" /\ tasks'[t] # tasks[t])
          => LET tk == tasks[t]
                 ended == tasks'[t].op = "idle"
             IN /\ (tk.pc = "deferred" /\ ~validate_contest_id(tk.contest_id))
                   => ended /\ reply'.kind = "InvalidContestId"
                /\ (/\ tk.pc = "deferred"
                    /\ validate_contest_id(tk.contest_id)
                    /\ platform_str(tk.contest_data.allowed_platforms) = InvalidPlatforms)
                   => ended /\ reply'.kind = "InvalidPlatformList"
                /\ (/\ tk.pc = "deferred"
                    /\ validate_contest_id(tk.contest_id)
                    /\ platform_str(tk.contest_data.allowed_platforms) # InvalidPlatforms
                    /\ db_lock.kind = "none")
                   => ((ended /\ reply'.kind = "DuplicateContestId")
                       <=> \E c \in contests : c.contest_id = tk.contest_id)
                /\ (ended /\ reply'.kind # "ContestCreated") => store' = store
                /\ (ended /\ reply'.kind = "ContestCreated")
                   => /\ \E c \in contests' :
                            /\ c.contest_id = tk.contest_id
                            /\ c.status = "active"
                            /\ c.max_submissions_per_user =
                                  tk.contest_data.max_submissions_per_user
                            /\ contests' = contests \cup {c}
                            /\ c \notin contests
                      /\ UNCHANGED <<submissions, votes, sqlite_seq>>]_vars

\* C26: no two contests share a contest_id or a (public_channel,
\* review_channel) pair, and a /contest create or /contest edit that is
\* refused leaves the contests as they were.
C26_ContestKeysUnique ==
    /\ [](\A c1, c2 \in contests :
             (\/ c1.contest_id = c2.contest_id
              \/ (/\ c1.public_channel_id = c2.public_channel_id
                  /\ c1.review_channel_id = c2.review_channel_id))
             => c1 = c2)
    /\ [][(/\ reply' # reply
           /\ reply'.op \in {"create", "edit"}
           /\ reply'.kind \in {"DuplicateContestId", "GenericError"})
          => contests' = contests]_vars

\* A second contest id was refused because the first contest holds its
\* channel pair, and only the first contest exists.
C26_Witness ==
    /\ reply.op = "create"
    /\ reply.kind = "DuplicateContestId"
    /\ \E c \in contests :
          c.contest_id = CID_A /\ c.public_channel_id = 1 /\ c.review_channel_id = 2
    /\ ~\E c \in contests : c.contest_id = CID_B
    /\ \A t \in Tasks : tasks[t].op = "idle"

(***************************************************************************)
(* database.py: get_contest_stats over the stores the schema admits        *)
(***************************************************************************)
\* Submissions, votes and seconds of created_at in a store drawn for the
\* statistics.
MaxStatsSubmissions == 3
MaxStatsVotes == 2
MaxCreatedAt == 1

\* COUNT(*) FROM submissions WHERE contest_id = ? (lines 311-314).
total_submissions(contest_id) ==
    Cardinality({r \in submissions : r.contest_id = contest_id})

\* COUNT(DISTINCT user_id) FROM submissions WHERE contest_id = ? (lines 317-320).
unique_participants(contest_id) ==
    Cardinality({r.user_id : r \in {s \in submissions : s.contest_id = contest_id}})

\* SELECT platform, COUNT(*) ... GROUP BY platform, as the dictionary of
\* line 332.
platforms(contest_id) ==
    LET rows == {r \in submissions : r.contest_id = contest_id}
    IN [p \in {r.platform : r \in rows} |-> Cardinality({r \in rows : r.platform = p})]

\* SELECT DATE(created_at), COUNT(*) ... GROUP BY DATE(created_at) ORDER BY
\* date: the seconds of the model all fall on one day.
submission_timeline(contest_id) ==
    IF total_submissions(contest_id) = 0 THEN <<>>
    ELSE << [date |-> 0, count |-> total_submissions(contest_id)] >>

\* The inner join in place of the left join: a submission nobody voted on
\* has no row.
vote_rows_InnerJoin(contest_id) ==
    {[submission_id |-> s.submission_id,
      vote_count |-> Cardinality({v \in votes : v.submission_id = s.submission_id})] :
        s \in {r \in submissions :
                 /\ r.contest_id = contest_id
                 /\ \E v \in votes : v.submission_id = r.submission_id}}

\* submissions s LEFT JOIN votes v ON s.submission_id = v.submission_id
\* WHERE s.contest_id = ? GROUP BY s.submission_id, with COUNT(v.vote_id):
\* one row for each submission of the contest, the number of its votes with
\* it (lines 352-358).
vote_rows(contest_id) ==
    {[submission_id |-> s.submission_id,
      vote_count |-> Cardinality({v \in votes : v.submission_id = s.submission_id})] :
        s \in {r \in submissions : r.contest_id = contest_id}}

\* created_at of the submission a row of the vote results stands for.
CreatedAt(row) ==
    (CHOOSE s \in submissions : s.submission_id = row.submission_id).created_at

\* ORDER BY vote_count DESC, s.created_at ASC (line 359): the orders the
\* query may give the rows in; rows equal in both keys come in either order.
vote_results(contest_id) ==
    LET rows == vote_rows(contest_id)
        n == Cardinality(rows)
    IN {q \in [1..n -> rows] :
          /\ \A i, j \in 1..n : i # j => q[i] # q[j]
          /\ \A i, j \in 1..n :
                i < j => \/ q[i].vote_count > q[j].vote_count
                         \/ /\ q[i].vote_count = q[j].vote_count
                            /\ CreatedAt(q[i]) <= CreatedAt(q[j])}

\* COUNT(*) FROM votes v JOIN submissions s ... WHERE s.contest_id = ?
\* (lines 366-371).
total_votes(contest_id) ==
    Cardinality({v \in votes :
                   \E s \in submissions : /\ s.submission_id = v.submission_id
                                          /\ s.contest_id = contest_id})

\* COUNT(DISTINCT v.user_id) over the same join (lines 374-379).
unique_voters(contest_id) ==
    Cardinality({v.user_id : v \in {w \in votes :
                   \E s \in submissions : /\ s.submission_id = w.submission_id
                                          /\ s.contest_id = contest_id}})

\* contest['status'] in ['voting', 'closed'] (line 350).
VotingEnabled(contest) == contest.status \in {"voting", "closed"}

\* The None get_contest_stats returns, comparable with its dictionaries.
NoStats == [result |-> None]

\* get_contest_stats(contest_id), lines 295-385: the dictionaries it may
\* return (keyed as in the source), or None for a contest that is not there
\* or a storage that raises.
get_contest_stats(contest_id) ==
    IF ReadBlocked(0) \/ ~\E c \in contests : c.contest_id = contest_id
    THEN {NoStats}
    ELSE LET contest == CHOOSE c \in contests : c.contest_id = contest_id
             stats == [contest |-> contest,
                       total_submissions |-> total_submissions(contest_id),
                       unique_participants |-> unique_participants(contest_id),
                       platforms |-> platforms(contest_id),
                       submission_timeline |-> submission_timeline(contest_id)]
         IN IF VotingEnabled(contest)
            THEN {stats @@ [votes |-> q,
                            total_votes |-> total_votes(contest_id),
                            unique_voters |-> unique_voters(contest_id)] :
                      q \in vote_results(contest_id)}
            ELSE {stats}

\* A call of get_contest_stats on its own.
ContestStats(contest_id) ==
    /\ \E stats \in get_contest_stats(contest_id) :
          call' = [fn |-> "get_contest_stats", input |-> contest_id, output |-> stats]
    /\ UNCHANGED <<store, db_lock, submit_calls, delete_calls, now, ticks, requests,
                   tasks, reply, rate_limits, db_version, schema, process, fault,
                   _handler_cache, backup_dir, granted,
                   audit_log>>

\* A submission row of the store, with the created_at the table gives it
\* (database.py line 74).
StatsSubmission(sid, cid, u, at) ==
    [submission_id |-> sid, contest_id |-> cid, user_id |-> u, song_name |-> SONG_OK,
     platform |-> N_YouTube, suno_url |-> URL_YT,
     public_message_id |-> 0, review_message_id |-> 0, created_at |-> at]

\* The contests of the stores the schema admits: contest s25 in any status
\* and contest w26 in voting.
StatsContests ==
    {{ContestRow(CHOOSE i \in CreateInputs :
                    /\ i.contest_id = CID_A
                    /\ i.allowed_platforms = None
                    /\ i.submission_limit = MinSubmissionLimit,
                 status),
      [contest_id |-> CID_B, public_channel_id |-> 3, review_channel_id |-> 4,
       allowed_platforms |-> None, max_submissions_per_user |-> MinSubmissionLimit,
       status |-> "voting"]} :
         status \in {"draft", "active", "voting", "closed"}}

\* What such a store holds under one submission_id: nothing, or a
\* submission of either contest by any user at any second.
StatsSlots ==
    {NoSubmission} \cup
    {StatsSubmission(0, cid, u, at) :
        cid \in {CID_A, CID_B}, u \in Users, at \in 0..MaxCreatedAt}

\* A store the schema admits: submissions with distinct ids, and votes on
\* submissions that exist, one for each voter and submission at most.
StatsInit ==
    /\ contests \in StatsContests
    /\ \E f \in [1..MaxStatsSubmissions -> StatsSlots] :
          submissions = {[f[sid] EXCEPT !.submission_id = sid] :
                            sid \in {i \in 1..MaxStatsSubmissions : f[i] # NoSubmission}}
    /\ votes \in {vs \in SUBSET {[submission_id |-> s.submission_id, user_id |-> u] :
                                     s \in submissions, u \in Users} :
                      Cardinality(vs) <= MaxStatsVotes}
    /\ sqlite_seq = MaxStatsSubmissions
    /\ db_lock = NoLock
    /\ submit_calls = [u \in Users |-> <<>>]
    /\ delete_calls = [u \in Users |-> <<>>]
    /\ now = 0
    /\ ticks = 0
    /\ requests = 0
    /\ tasks = [t \in Tasks |-> IdleTask]
    /\ reply = [task |-> 0, op |-> "idle", kind |-> "none", value |-> 0]
    /\ rate_limits = {}
    /\ db_version = 0
    /\ schema = {}
    /\ process = ServingProcess
    /\ fault = "none"
    /\ audit_log = <<>>
    /\ call = NoCall
    /\ _handler_cache = {}
    /\ backup_dir = {}
    /\ granted = NoGrants

StatsNext == \E cid \in {CID_A, CID_B, CID_BAD} : ContestStats(cid)

StatsSpec == StatsInit /\ [][StatsNext]_vars

\* C27: get_contest_stats gives the vote leaderboard exactly for a contest
\* in status voting or closed; the leaderboard then has one row for every
\* submission of the contest, those without a vote too, each with the number
\* of its votes, in descending order of votes and, among equal votes, in
\* ascending order of created_at; total_votes is the sum of the listed
\* counts and unique_voters the number of distinct users who voted in the
\* contest; and for a contest without submissions the call answers (not
\* None) with every count zero and every list empty.
C27_StatsLeaderboard ==
    call.fn = "get_contest_stats" =>
        LET cid == call.input
            out == call.output
            rows == {r \in submissions : r.contest_id = cid}
            RECURSIVE SumCounts(_)
            SumCounts(q) == IF q = <<>> THEN 0
                            ELSE Head(q).vote_count + SumCounts(Tail(q))
        IN \A c \in contests : c.contest_id = cid =>
             /\ out # NoStats
             /\ ("votes" \in DOMAIN out) <=> (c.status \in {"voting", "closed"})
             /\ "votes" \in DOMAIN out =>
                  /\ Len(out.votes) = Cardinality(rows)
                  /\ {out.votes[i].submission_id : i \in 1..Len(out.votes)}
                        = {r.submission_id : r \in rows}
                  /\ \A i \in 1..Len(out.votes) :
                        out.votes[i].vote_count =
                           Cardinality({v \in votes :
                                          v.submission_id = out.votes[i].submission_id})
                  /\ \A i, j \in 1..Len(out.votes) :
                        i < j =>
                          /\ out.votes[i].vote_count >= out.votes[j].vote_count
                          /\ out.votes[i].vote_count = out.votes[j].vote_count
                               => \A r, s \in rows :
                                    /\ r.submission_id = out.votes[i].submission_id
                                    /\ s.submission_id = out.votes[j].submission_id
                                    => r.created_at <= s.created_at
                  /\ out.total_votes = SumCounts(out.votes)
                  /\ out.unique_voters =
                        Cardinality({v.user_id : v \in {w \in votes :
                           \E r \in rows : r.submission_id = w.submission_id}})
             /\ rows = {} =>
                  /\ out.total_submissions = 0
                  /\ out.unique_participants = 0
                  /\ DOMAIN out.platforms = {}
                  /\ out.submission_timeline = <<>>
                  /\ "votes" \in DOMAIN out =>
                        /\ out.votes = <<>>
                        /\ out.total_votes = 0
                        /\ out.unique_voters = 0

\* The leaderboard of a voting contest with three submissions: the one with
\* a vote first, then two without a vote, the earlier one of them with the
\* higher submission_id.
C27_Witness ==
    /\ call.fn = "get_contest_stats"
    /\ call.input = CID_A
    /\ \E c \in contests : c.contest_id = CID_A /\ c.status = "voting"
    /\ "votes" \in DOMAIN call.output
    /\ Len(call.output.votes) = 3
    /\ call.output.votes[1].vote_count = 1
    /\ call.output.votes[2].vote_count = 0
    /\ call.output.votes[3].vote_count = 0
    /\ call.output.votes[2].submission_id > call.output.votes[3].submission_id
    /\ \E r, s \in submissions :
          /\ r.submission_id = call.output.votes[2].submission_id
          /\ s.submission_id = call.output.votes[3].submission_id
          /\ r.created_at < s.created_at

(***************************************************************************)
(* platforms.py: PlatformManager.get_platform_handler with its cache       *)
(***************************************************************************)
\* https://suno.com/song/x
URL_SUNO == W_https \o D_suno_com \o <<"/","s","o","n","g","/","x">>
\* https://udio.com/songs/x
URL_UDIO == W_https \o D_udio_com \o <<"/","s","o","n","g","s","/","x">>
\* https://www.riffusion.com/share?id=x
URL_RIFFUSION ==
    W_https \o W_www \o D_riffusion_com \o <<"/","s","h","a","r","e","?","i","d","=","x">>
\* https://soundcloud.com/artist/x
URL_SOUNDCLOUD ==
    W_https \o D_soundcloud_com \o <<"/","a","r","t","i","s","t","/","x">>
\* https://spotify.com.udio.com/x : the domains of two handlers in one host,
\* that of the later handler first
URL_TWO == W_https \o D_spotify_com \o <<".">> \o D_udio_com \o <<"/","x">>

\* The URLs the registry is asked about.
RegistryUrls ==
    {URL_SUNO, URL_UDIO, URL_RIFFUSION, URL_YT, URL_SOUNDCLOUD, URL_SPOTIFY,
     URL_TWO, URL_OTHER}

\* The entry of some URL or other in place of the entry of this URL.
handler_cache_get_AnyUrl(cache, url) == (CHOOSE e \in cache : TRUE)[2]

\* self._handler_cache[url] (line 392); the dictionary is the set of its
\* <<key, value>> pairs.
handler_cache_get(cache, url) == (CHOOSE e \in cache : e[1] = url)[2]

\* PlatformManager.get_platform_handler as written (lines 388-398), called
\* on its own: the cached handler if the URL is a key of the cache, else the
\* first handler of the list that matches, which is cached, else None,
\* which is not.  The coroutine has no await: it runs in one step.
GetPlatformHandler(url) ==
    /\ IF \E e \in _handler_cache : e[1] = url
       THEN /\ call' = [fn |-> "get_platform_handler", input |-> url,
                        output |-> handler_cache_get(_handler_cache, url)]
            /\ UNCHANGED _handler_cache
       ELSE IF \E h \in 1..Len(handlers) : matches(h, url)
       THEN LET handler == handlers[Min({h \in 1..Len(handlers) : matches(h, url)})]
            IN /\ _handler_cache' = _handler_cache \cup {<<url, handler.name>>}
               /\ call' = [fn |-> "get_platform_handler", input |-> url,
                           output |-> handler.name]
       ELSE /\ call' = [fn |-> "get_platform_handler", input |-> url, output |-> None]
            /\ UNCHANGED _handler_cache
    /\ UNCHANGED <<store, db_lock, submit_calls, delete_calls, now, ticks, requests,
                   tasks, reply, rate_limits, db_version, schema, process, fault,
                   backup_dir, granted, audit_log>>

\* PlatformManager.clear_cache (lines 428-431), on a cache that holds
\* something.
ClearCache ==
    /\ _handler_cache # {}
    /\ _handler_cache' = {}
    /\ UNCHANGED <<store, db_lock, submit_calls, delete_calls, now, ticks, requests,
                   tasks, reply, rate_limits, db_version, schema, process, fault,
                   call, backup_dir, granted, audit_log>>

\* PlatformManager.__init__ (lines 377-386): the cache starts empty.
RegistryInit == LimiterInit

RegistryNext ==
    \/ \E url \in RegistryUrls : GetPlatformHandler(url)
    \/ ClearCache

RegistrySpec == RegistryInit /\ [][RegistryNext]_vars

\* C28: the handlers stand in the order Suno, Udio, Riffusion, YouTube,
\* SoundCloud, Spotify; whatever was resolved before, a resolution gives the
\* first handler in that order that matches the URL, and None if none
\* matches: the same as a resolution without the cache.
C28_RegistryFirstMatchCacheTransparent ==
    /\ [h \in 1..Len(handlers) |-> handlers[h].name]
          = <<N_Suno, N_Udio, N_Riffusion, N_YouTube, N_SoundCloud, N_Spotify>>
    /\ call.fn = "get_platform_handler" =>
          /\ call.output = get_platform_handler(call.input)
          /\ \A h \in 1..Len(handlers) :
                /\ matches(h, call.input)
                /\ \A g \in 1..(h - 1) : ~matches(g, call.input)
                => call.output = handlers[h].name
          /\ (\A h \in 1..Len(handlers) : ~matches(h, call.input))
                => call.output = None
    /\ \A e \in _handler_cache : e[2] = get_platform_handler(e[1])

\* A resolution answered from a cache that holds other URLs too: the URL
\* with the domains of Spotify and Udio resolves to Udio once more, after
\* YouTube and Spotify URLs have been cached.
C28_Witness ==
    /\ call = [fn |-> "get_platform_handler", input |-> URL_TWO, output |-> N_Udio]
    /\ <<URL_TWO, N_Udio>> \in _handler_cache
    /\ <<URL_YT, N_YouTube>> \in _handler_cache
    /\ <<URL_SPOTIFY, N_Spotify>> \in _handler_cache
    /\ ~\E e \in _handler_cache : e[1] = URL_OTHER

(***************************************************************************)
(* utils.py: validate_contest_id over candidate ids                        *)
(***************************************************************************)
\* Length of the candidate ids that are built from every character, and
\* distance of the long candidate ids from the longest id allowed.
MaxShortIdLength == 3
LongIdMargin == 2

\* The characters candidate ids are built from: a letter of either case, a
\* digit, the hyphen, and characters that are none of these.
IdAlphabet == {"a", "Z", "7", "-", " ", "!", "\n"}

\* ("summer-2025", True), ("test", True), ("valid-contest-id", True),
\* ("invalid contest", False), ("test!", False), ("-invalid", False),
\* ("valid--invalid", False) of test_validation.
TestedIds ==
    { <<"s","u","m","m","e","r","-","2","0","2","5">>,
      <<"t","e","s","t">>,
      <<"v","a","l","i","d","-","c","o","n","t","e","s","t","-","i","d">>,
      <<"i","n","v","a","l","i","d"," ","c","o","n","t","e","s","t">>,
      <<"t","e","s","t","!">>,
      <<"-","i","n","v","a","l","i","d">>,
      <<"v","a","l","i","d","-","-","i","n","v","a","l","i","d">> }

\* The ids validate_contest_id is asked about: every string of up to
\* MaxShortIdLength characters of the alphabet, the ids of the test, and
\* strings of a's around the longest length allowed, as they are or with
\* another character of the alphabet in place of the last one.
CandidateIds ==
    UNION {[1..n -> IdAlphabet] : n \in 0..MaxShortIdLength}
    \cup TestedIds
    \cup {[i \in 1..n |-> IF i = n THEN last ELSE "a"] :
             n \in (MAX_CONTEST_ID_LENGTH - LongIdMargin)
                       ..(MAX_CONTEST_ID_LENGTH + LongIdMargin),
             last \in IdAlphabet}

\* A call of validate_contest_id on its own.
ValidateContestId(contest_id) ==
    /\ call' = [fn |-> "validate_contest_id", input |-> contest_id,
                output |-> validate_contest_id(contest_id)]
    /\ UNCHANGED <<store, db_lock, submit_calls, delete_calls, now, ticks, requests,
                   tasks, reply, rate_limits, db_version, schema, process, fault,
                   _handler_cache, backup_dir, granted,
                   audit_log>>

ValidatorNext == \E contest_id \in CandidateIds : ValidateContestId(contest_id)

ValidatorSpec == LimiterInit /\ [][ValidatorNext]_vars

\* C29: validate_contest_id answers true exactly for the ids made of
\* letters, digits and hyphens that begin and end with a letter or digit,
\* hold no two hyphens in a row, and are 3 to 30 characters long or are a
\* single letter or digit; so true for "a", and false for "--x", "x--y", ""
\* and a string of 31 characters.
C29_ValidContestIdExactly ==
    call.fn = "validate_contest_id" =>
        LET id == call.input
            wellFormed ==
                /\ id # <<>>
                /\ \A i \in 1..Len(id) : id[i] \in Alnum \cup {"-"}
                /\ id[1] \in Alnum
                /\ id[Len(id)] \in Alnum
                /\ ~\E i \in 1..(Len(id) - 1) : id[i] = "-" /\ id[i + 1] = "-"
        IN /\ call.output <=>
                /\ wellFormed
                /\ \/ Len(id) \in MIN_CONTEST_ID_LENGTH..MAX_CONTEST_ID_LENGTH
                   \/ Len(id) = 1
           /\ id = <<"a">> => call.output
           /\ id \in {<<"-","-","a">>, <<>>, CID_BAD, [i \in 1..31 |-> "a"]}
                 => ~call.output

\* C30: validate_contest_id answers false for every id of fewer than 3
\* characters ("a" too) or more than 30, every id that holds a space or
\* another character that is neither letter, digit nor hyphen, every id that
\* begins with a hyphen and every id that holds two hyphens in a row; and it
\* answers true for "test" and "summer-2025".
C30_InvalidContestIdsRefused ==
    call.fn = "validate_contest_id" =>
        LET id == call.input
        IN /\ (\/ Len(id) < 3
               \/ Len(id) > 30
               \/ \E i \in 1..Len(id) : id[i] \notin Alnum \cup {"-"}
               \/ (id # <<>> /\ id[1] = "-")
               \/ \E i \in 1..(Len(id) - 1) : id[i] = "-" /\ id[i + 1] = "-")
                 => ~call.output
           /\ id \in {<<"t","e","s","t">>,
                      <<"s","u","m","m","e","r","-","2","0","2","5">>}
                 => call.output

(***************************************************************************)
(* database.py: create_backup and its retention                            *)
(***************************************************************************)
\* Timestamps a backup file may carry, and the largest Config.MAX_BACKUPS
\* drawn.
MaxTimestamp == 4
MaxRetention == 3

\* datetime.now().strftime("%Y%m%d_%H%M%S") (line 255): digits of fixed
\* width, so that the names suno_contests_<timestamp>.db sort as their
\* timestamps do.
Timestamps == 1..MaxTimestamp

\* sorted([...]) (lines 266-269): the matching file names in ascending order.
RECURSIVE sorted(_)
sorted(S) ==
    IF S = {} THEN <<>>
    ELSE LET least == Min(S) IN <<least>> \o sorted(S \ {least})

\* backups[:-Config.MAX_BACKUPS] (line 271): all but the last MAX_BACKUPS
\* names; for MAX_BACKUPS = 0 the slice is backups[:0], the empty list.
old_backups(backups, MAX_BACKUPS) ==
    IF MAX_BACKUPS = 0 THEN <<>>
    ELSE SubSeq(backups, 1, Len(backups) - MAX_BACKUPS)

\* What may go wrong in a backup: nothing, the copy (lines 259-261), or a
\* removal (line 273).
BackupFaults == {"none", "backup", "remove"}

\* create_backup() (lines 247-280) with Config.MAX_BACKUPS and the wall
\* clock as given: the copy under the timestamped name, which replaces a
\* file of the same second; then the removal of the old backups, first name
\* first.  An exception ends the function there with None (lines 278-280).
CreateBackup(MAX_BACKUPS, timestamp, failure) ==
    LET copied == backup_dir \cup {timestamp}
        old == old_backups(sorted(copied), MAX_BACKUPS)
        input == [MAX_BACKUPS |-> MAX_BACKUPS, backup_dir |-> backup_dir]
    IN /\ CASE failure = "none" ->
                /\ backup_dir' = copied \ {old[i] : i \in 1..Len(old)}
                /\ call' = [fn |-> "create_backup", input |-> input,
                            output |-> [returned |-> "backup_path",
                                        timestamp |-> timestamp]]
            [] failure = "backup" ->
                /\ backup_dir' \in {backup_dir, copied}
                /\ call' = [fn |-> "create_backup", input |-> input,
                            output |-> [returned |-> "None", timestamp |-> timestamp]]
            [] failure = "remove" ->
                /\ old # <<>>
                /\ \E removed \in 0..(Len(old) - 1) :
                      backup_dir' = copied \ {old[i] : i \in 1..removed}
                /\ call' = [fn |-> "create_backup", input |-> input,
                            output |-> [returned |-> "None", timestamp |-> timestamp]]
       /\ UNCHANGED <<store, db_lock, submit_calls, delete_calls, now, ticks, requests,
                      tasks, reply, rate_limits, db_version, schema, process, fault,
                      _handler_cache, granted, audit_log>>

\* A serving bot whose backup directory holds any backups.
BackupInit ==
    /\ contests = {}
    /\ submissions = {}
    /\ votes = {}
    /\ sqlite_seq = 0
    /\ db_lock = NoLock
    /\ submit_calls = [u \in Users |-> <<>>]
    /\ delete_calls = [u \in Users |-> <<>>]
    /\ now = 0
    /\ ticks = 0
    /\ requests = 0
    /\ tasks = [t \in Tasks |-> IdleTask]
    /\ reply = [task |-> 0, op |-> "idle", kind |-> "none", value |-> 0]
    /\ rate_limits = {}
    /\ db_version = 0
    /\ schema = {}
    /\ process = ServingProcess
    /\ fault = "none"
    /\ audit_log = <<>>
    /\ call = NoCall
    /\ _handler_cache = {}
    /\ backup_dir \in SUBSET Timestamps
    /\ granted = NoGrants

BackupNext ==
    \E MAX_BACKUPS \in 0..MaxRetention, timestamp \in Timestamps,
       failure \in BackupFaults :
          CreateBackup(MAX_BACKUPS, timestamp, failure)

BackupSpec == BackupInit /\ [][BackupNext]_vars

\* C31: once create_backup has returned its path under retention count R,
\* the directory holds the new backup and at most R backups; the backups
\* removed are first in the order of their names among those that were there
\* with the new one; and none of the R last in that order was removed.
C31_BackupRetention ==
    (call.fn = "create_backup" /\ call.output.returned = "backup_path") =>
        LET R == call.input.MAX_BACKUPS
            all == call.input.backup_dir \cup {call.output.timestamp}
            removed == all \ backup_dir
        IN /\ call.output.timestamp \in backup_dir
           /\ backup_dir \subseteq all
           /\ Cardinality(backup_dir) <= R
           /\ \A x \in removed, y \in backup_dir : x < y
           /\ \A x \in removed : Cardinality({y \in all : y > x}) >= R

(***************************************************************************)
(* main.py: submit, the kinds of its rejections                            *)
(***************************************************************************)
\* C32: a /submit that gets as far as the contest lookup is answered
\* ContestNotFound when no contest has the contest_id, and ContestClosed
\* when the contest is there in status draft or closed: two answers that
\* differ.
C32_SpecificRejectionKind ==
    [][\A t \in Tasks :
          (/\ SubmitAdmit(t)
           /\ reply'.task = t
           /\ reply'.kind \notin {"RateLimited", "InvalidInput", "NoAnswer"})
          => /\ (~\E c \in contests : c.contest_id = tasks[t].contest_id)
                   => reply'.kind = "ContestNotFound"
             /\ (\E c \in contests : /\ c.contest_id = tasks[t].contest_id
                                     /\ c.status \in {"draft", "closed"})
                   => reply'.kind = "ContestClosed"]_vars

(***************************************************************************)
(* main.py: delete_contest, the count it reports                           *)
(***************************************************************************)
\* C33: the number of submissions a /contest delete reports (counted when
\* the command arrived, and reported once the deletion is done) is the
\* number of submission rows its deletion removes, whatever was committed
\* while it waited for its confirmation.
C33_ReportedCountIsRemovedCount ==
    [][\A t \in Tasks :
          (DeleteContestConfirmed(t, TRUE) /\ contests' # contests)
          => tasks'[t].submission_count = Cardinality(submissions \ submissions')]_vars

(***************************************************************************)
(* database.py: the foreign keys, under every command that writes          *)
(***************************************************************************)
\* A serving bot whose store holds contest s25 with a submission of each of
\* two users, and votes on both submissions.
IntegrityInit ==
    /\ contests = {ContestRow(CHOOSE i \in CreateInputs :
                                 /\ i.contest_id = CID_A
                                 /\ i.allowed_platforms = None
                                 /\ i.submission_limit = MinSubmissionLimit,
                              "active")}
    /\ submissions = {[NoSubmission EXCEPT !.submission_id = u, !.contest_id = CID_A,
                                           !.user_id = u, !.song_name = SONG_OK,
                                           !.platform = N_YouTube, !.suno_url = URL_YT,
                                           !.public_message_id = u,
                                           !.review_message_id = u] : u \in 1..2}
    /\ votes \in {vs \in SUBSET {[submission_id |-> sid, user_id |-> u] :
                                    sid \in 1..2, u \in Users} :
                     \A sid \in 1..2 : \E v \in vs : v.submission_id = sid}
    /\ sqlite_seq = 2
    /\ db_lock = NoLock
    /\ submit_calls = [u \in Users |-> <<>>]
    /\ delete_calls = [u \in Users |-> <<>>]
    /\ now = 0
    /\ ticks = 0
    /\ requests = 0
    /\ tasks = [t \in Tasks |-> IdleTask]
    /\ reply = [task |-> 0, op |-> "idle", kind |-> "none", value |-> 0]
    /\ rate_limits = {}
    /\ db_version = 0
    /\ schema = {}
    /\ process = ServingProcess
    /\ fault = "none"
    /\ audit_log = <<>>
    /\ call = NoCall
    /\ _handler_cache = {}
    /\ backup_dir = {}
    /\ granted = NoGrants

\* Contests are created and deleted, submissions arrive and are deleted.
IntegrityNext ==
    \/ \E t \in Tasks, u \in Users, in \in {i \in SubmitInputs :
                                              /\ i.contest_id = CID_A
                                              /\ i.song_name = SONG_OK
                                              /\ i.url = URL_SPOTIFY} :
          SubmitRequest(t, u, in)
    \/ \E t \in Tasks : SubmitAdmit(t)
    \/ \E t \in Tasks, o \in PostOutcomes : SubmitReviewPosted(t, o)
    \/ \E t \in Tasks, o \in PostOutcomes : SubmitPublicPosted(t, o)
    \/ \E t \in Tasks, o \in PostOutcomes : SubmitReacted(t, o)
    \/ \E t \in Tasks, sent \in BOOLEAN : SubmitResponded(t, sent)
    \/ \E t \in Tasks, u \in Managers, in \in {i \in CreateInputs :
                                                 /\ i.contest_id = CID_A
                                                 /\ i.allowed_platforms = None} :
          CreateRequest(t, u, in)
    \/ \E t \in Tasks : CreateInsert(t)
    \/ \E t \in Tasks, sent \in BOOLEAN : CreateResponded(t, sent)
    \/ \E t \in Tasks, u \in Managers : DeleteContestRequest(t, u, CID_A)
    \/ \E t \in Tasks, v \in BOOLEAN : DeleteContestConfirmed(t, v)
    \/ \E t \in Tasks, sent \in BOOLEAN : DeleteContestResponded(t, sent)
    \/ \E t \in Tasks, u \in Users, sid \in 1..(sqlite_seq + 1), p \in BOOLEAN :
          DeleteRequest(t, u, sid, p)
    \/ \E t \in Tasks, v \in BOOLEAN : DeleteConfirmed(t, v, "ok", "ok")
    \/ \E t \in Tasks, sent \in BOOLEAN : DeleteResponded(t, sent)

IntegritySpec == IntegrityInit /\ [][IntegrityNext]_vars

\* C34: in every state the commands reach, every submission row names a
\* contest that is there and every vote row names a submission that is
\* there.
C34_ReferentialIntegrity ==
    /\ \A r \in submissions : \E c \in contests : c.contest_id = r.contest_id
    /\ \A v \in votes : \E r \in submissions : r.submission_id = v.submission_id

\* Of the two submissions with votes one was deleted by its owner: the
\* other is still there with its votes.
C34_Witness ==
    /\ reply.op = "delete"
    /\ reply.kind = "Deleted"
    /\ Cardinality(submissions) = 1
    /\ votes # {}
    /\ contests # {}

(***************************************************************************)
(* main.py: submit, its transaction and what it tells its caller           *)
(***************************************************************************)
\* C35: the exclusive lock on the database is held only by a /submit that
\* is still running: whichever way a /submit ends after BEGIN EXCLUSIVE, by
\* COMMIT or by ROLLBACK, it does not end holding the lock.
C35_ExclusiveLockReleased ==
    /\ db_lock.kind = "exclusive"
          => /\ db_lock.holder \in Tasks
             /\ tasks[db_lock.holder].op = "submit"
             /\ tasks[db_lock.holder].pc \in {"fetching", "posting_review",
                                              "posting_public", "reacting"}
    /\ \A t \in Tasks : tasks[t].op = "idle" => db_lock.holder # t

\* A /submit whose post failed has ended, and the database is free.
C35_Witness ==
    /\ reply.op = "submit"
    /\ reply.kind = "PostingFailed"
    /\ tasks[reply.task].op = "idle"
    /\ db_lock = NoLock
    /\ sqlite_seq = 0


\* C36: a /submit of one user that is in flight (suspended on the metadata
\* fetch or on a channel post) never makes the /submit of another user fail
\* with a storage error: the other user's attempt, made meanwhile, is not
\* ended by "database is locked".
C36_OtherUsersNotBlocked ==
    [][\A t \in Tasks :
          (/\ SubmitAdmit(t)
           /\ db_lock.kind = "exclusive"
           /\ db_lock.holder # t
           /\ tasks[db_lock.holder].op = "submit"
           /\ tasks[db_lock.holder].user # tasks[t].user
           /\ is_allowed(submit_calls[tasks[t].user], now,
                         SubmitMaxCalls, SubmitTimeWindow)
           /\ OtherwiseValid(tasks[t])
           /\ OpenContests(tasks[t].contest_id) # {}
           /\ \A c \in OpenContests(tasks[t].contest_id) :
                 /\ user_submission_count(tasks[t].contest_id, tasks[t].user)
                       < c.max_submissions_per_user
                 /\ PlatformAllowed(c, get_platform_handler(tasks[t].url)))
          => ~(reply'.task = t /\ reply'.kind = "NoAnswer")]_vars


\* The positions of a /submit at which review_channel.send() has returned:
\* the review channel holds a message whose footer names the submission id of
\* the task's row (lines 567-569).
ReviewMessagePosted == {"posting_public", "reacting", "responding"}

\* C37: when a /submit ends after its review message (or both its messages)
\* was posted, the submission row whose id the message announces is in the
\* store: no attempt ends with a message for a row that was rolled back.
C37_MessageOnlyForStoredRow ==
    [][\A t \in Tasks :
          (SubmitEnds(t) /\ tasks[t].pc \in ReviewMessagePosted)
          => \E r \in submissions' :
                r.submission_id = tasks[t].row.submission_id]_vars


\* The position of a /submit after its COMMIT (line 602): the row of the task
\* is committed and the handler is suspended in the success answer (line 627).
RowCommitted(t) == tasks[t].pc = "responding"

\* C38: a /submit ends by telling its caller that the submission succeeded
\* exactly when it committed its row; an attempt whose row is committed does
\* not end otherwise (with an error, or with nothing said).
C38_ReportedOutcomeAgrees ==
    [][\A t \in Tasks :
          SubmitEnds(t)
          => ((reply'.task = t /\ reply'.kind = "Accepted") <=> RowCommitted(t))]_vars


(***************************************************************************)
(* utils.py: RateLimiter with its resets, on both limiters of the bot      *)
(***************************************************************************)
MaxApiCalls == 7

\* The fields of limiter l: submit_limiter or delete_limiter (main.py 43-44).
max_calls(l) == IF l = "submit" THEN SubmitMaxCalls ELSE DeleteMaxCalls
time_window(l) == IF l = "submit" THEN SubmitTimeWindow ELSE DeleteTimeWindow
calls_of(l) == IF l = "submit" THEN submit_calls ELSE delete_calls

\* self.calls of limiter l becomes new_calls.
SetCalls(l, new_calls) ==
    IF l = "submit"
    THEN submit_calls' = new_calls /\ UNCHANGED delete_calls
    ELSE delete_calls' = new_calls /\ UNCHANGED submit_calls

\* What the limiter's methods leave alone.
LimiterFrame ==
    UNCHANGED <<store, db_lock, ticks, tasks, rate_limits, db_version, schema,
                process, fault, call, _handler_cache, backup_dir, audit_log>>

\* RateLimiter(max_calls, time_window) as main.py constructs limiter l
\* (lines 43-44), and whether l is the limiter the calls are made on.
NewLimiter(l) ==
    [fn |-> "RateLimiter",
     input |-> [max_calls |-> max_calls(l), time_window |-> time_window(l)],
     output |-> l]
Called(l) == call = NewLimiter(l)

\* l.is_allowed(u) (lines 30-45).
IsAllowed(l, u) ==
    LET allowed == is_allowed(calls_of(l)[u], now, max_calls(l), time_window(l))
    IN /\ Called(l)
       /\ requests < MaxApiCalls
       /\ requests' = requests + 1
       /\ SetCalls(l, [calls_of(l) EXCEPT ![u] =
              calls_after(calls_of(l)[u], now, max_calls(l), time_window(l))])
       /\ granted' = IF allowed
                     THEN [granted EXCEPT ![l][u] = Append(granted[l][u], now)]
                     ELSE granted
       /\ reply' = [task |-> u, op |-> "is_allowed",
                    kind |-> IF allowed THEN "true" ELSE "false", value |-> 0]
       /\ UNCHANGED now
       /\ LimiterFrame

\* l.reset_user(u) (lines 47-50).
ResetUser(l, u) ==
    /\ Called(l)
    /\ SetCalls(l, [calls_of(l) EXCEPT ![u] = <<>>])
    /\ granted' = [granted EXCEPT ![l][u] = <<>>]
    /\ reply' = [task |-> u, op |-> "reset_user", kind |-> "none", value |-> 0]
    /\ UNCHANGED <<now, requests>>
    /\ LimiterFrame

\* l.reset_all() (lines 52-54).
ResetAll(l) ==
    /\ Called(l)
    /\ SetCalls(l, [u \in Users |-> <<>>])
    /\ granted' = [granted EXCEPT ![l] = [u \in Users |-> <<>>]]
    /\ reply' = [task |-> 0, op |-> "reset_all", kind |-> "none", value |-> 0]
    /\ UNCHANGED <<now, requests>>
    /\ LimiterFrame

\* l.get_remaining_time(u) (lines 56-65).
GetRemainingTime(l, u) ==
    /\ Called(l)
    /\ reply' = [task |-> u, op |-> "get_remaining_time", kind |-> "value",
                 value |-> get_remaining_time(calls_of(l)[u], now, time_window(l))]
    /\ UNCHANGED <<submit_calls, delete_calls, granted, now, requests>>
    /\ LimiterFrame

ApiNext ==
    \/ \E l \in Limiters, u \in Users : IsAllowed(l, u)
    \/ \E l \in Limiters, u \in Users : ResetUser(l, u)
    \/ \E l \in Limiters : ResetAll(l)
    \/ \E l \in Limiters, u \in Users : GetRemainingTime(l, u)
    \/ \E d \in {1, SubmitTimeWindow - 1} : LimiterTick(d)

\* Either limiter, newly constructed, in a serving bot.
ApiInit ==
    /\ contests = {}
    /\ submissions = {}
    /\ votes = {}
    /\ sqlite_seq = 0
    /\ db_lock = NoLock
    /\ submit_calls = [u \in Users |-> <<>>]
    /\ delete_calls = [u \in Users |-> <<>>]
    /\ now = 0
    /\ ticks = 0
    /\ requests = 0
    /\ tasks = [t \in Tasks |-> IdleTask]
    /\ reply = [task |-> 0, op |-> "idle", kind |-> "none", value |-> 0]
    /\ rate_limits = {}
    /\ db_version = 0
    /\ schema = {}
    /\ process = ServingProcess
    /\ fault = "none"
    /\ audit_log = <<>>
    /\ \E l \in Limiters : call = NewLimiter(l)
    /\ _handler_cache = {}
    /\ backup_dir = {}
    /\ granted = NoGrants

ApiSpec == ApiInit /\ [][ApiNext]_vars

\* How many calls of u limiter l granted from time a on, within an interval
\* one second shorter than its window.
GrantedWithin(l, u, a) ==
    Cardinality({i \in 1..Len(granted[l][u]) :
                    /\ a <= granted[l][u][i]
                    /\ granted[l][u][i] < a + time_window(l)})

\* This step is a call of a method of limiter l on behalf of user u.
CallOf(l, u) == IsAllowed(l, u) \/ ResetUser(l, u) \/ GetRemainingTime(l, u)

\* C39: for each limiter and user, the calls of is_allowed that returned True
\* since the user's last reset and lie within any interval shorter than
\* time_window number at most max_calls; and a call made for one user
\* (is_allowed, reset_user, get_remaining_time) leaves every other user's
\* history, and so the results of is_allowed and get_remaining_time for
\* them, as they were.
C39_BoundedAndIndependent ==
    /\ [](\A l \in Limiters, u \in Users, a \in 0..now :
             GrantedWithin(l, u, a) <= max_calls(l))
    /\ [][\A l \in Limiters, u \in Users :
             CallOf(l, u) =>
                \A k \in Limiters, v \in Users :
                   (k # l \/ v # u) =>
                      /\ calls_of(k)'[v] = calls_of(k)[v]
                      /\ is_allowed(calls_of(k)'[v], now', max_calls(k),
                                    time_window(k))
                          = is_allowed(calls_of(k)[v], now, max_calls(k),
                                       time_window(k))
                      /\ get_remaining_time(calls_of(k)'[v], now', time_window(k))
                          = get_remaining_time(calls_of(k)[v], now,
                                               time_window(k))]_vars

\* submit_limiter has granted user 1 five calls within a window and denied
\* the sixth, while it holds a call of user 2.
C39_Witness ==
    /\ reply = [task |-> 1, op |-> "is_allowed", kind |-> "false", value |-> 0]
    /\ Called("submit")
    /\ Len(granted["submit"][1]) = SubmitMaxCalls
    /\ \E a \in 0..now : GrantedWithin("submit", 1, a) = SubmitMaxCalls
    /\ submit_calls[2] # <<>>
    /\ now > 0
=============================================================================
